---------------------------- MODULE Spec2Model ----------------------------
(***************************************************************************)
(* LicenseChain JavaScript SDK: the webhook verifier (WebhookVerifier) and *)
(* the webhook dispatcher (WebhookHandler) of webhook-verifier.ts, the     *)
(* response interceptor of the client (client.ts, exceptions.ts), the      *)
(* session of EnhancedClient and the rules of LicenseValidator.            *)
(*                                                                         *)
(* Strings the code inspects character by character (signatures and        *)
(* algorithm names) are sequences of one-character strings.  A payload is  *)
(* a sequence of JSON tokens.  JavaScript values are tagged records, so    *)
(* that values of different JavaScript types can be compared.              *)
(***************************************************************************)
EXTENDS Integers, Sequences, FiniteSets, TLC

(***************************************************************************)
(* Bounds of the model.                                                    *)
(***************************************************************************)
\* longest payload, in tokens, a direct caller of the verifier passes
MaxPayloadLen == 2
\* handle() calls made on the WebhookHandler in one behaviour
MaxCalls == 1
\* constructor, on, off and clearHandlers calls recorded in the log
MaxLog == 3
\* handle() calls in flight at the same time
MaxConcurrent == 2
\* license keys in one validateLicenses call
MaxKeys == 2

(***************************************************************************)
(* Characters.  charCodeAt and toLowerCase work on UTF-16 code units; the  *)
(* characters used here are ASCII.                                         *)
(***************************************************************************)
HexDigits == <<"0", "1", "2", "3", "4", "5", "6", "7",
               "8", "9", "a", "b", "c", "d", "e", "f">>

Chars == {HexDigits[i] : i \in 1..16} \cup {"s", "h", "m", "S", "H", "A", "=", "g"}

charCodeAt(c) ==
    CASE c = "0" -> 48 [] c = "1" -> 49 [] c = "2" -> 50 [] c = "3" -> 51
      [] c = "4" -> 52 [] c = "5" -> 53 [] c = "6" -> 54 [] c = "7" -> 55
      [] c = "8" -> 56 [] c = "9" -> 57 [] c = "=" -> 61
      [] c = "A" -> 65 [] c = "H" -> 72 [] c = "S" -> 83
      [] c = "a" -> 97 [] c = "b" -> 98 [] c = "c" -> 99 [] c = "d" -> 100
      [] c = "e" -> 101 [] c = "f" -> 102 [] c = "g" -> 103 [] c = "h" -> 104
      [] c = "m" -> 109 [] c = "s" -> 115

fromCharCode(n) == CHOOSE c \in Chars : charCodeAt(c) = n

\* String.prototype.toLowerCase, one character
toLowerChar(c) ==
    IF charCodeAt(c) >= 65 /\ charCodeAt(c) <= 90
    THEN fromCharCode(charCodeAt(c) + 32)
    ELSE c

\* String.prototype.toLowerCase
toLowerCase(s) == [i \in 1..Len(s) |-> toLowerChar(s[i])]

\* the bitwise operators ^ and | on non-negative integers
RECURSIVE BitXor(_, _)
BitXor(x, y) ==
    IF x = 0 /\ y = 0 THEN 0
    ELSE (IF (x % 2) = (y % 2) THEN 0 ELSE 1) + 2 * BitXor(x \div 2, y \div 2)

RECURSIVE BitOr(_, _)
BitOr(x, y) ==
    IF x = 0 /\ y = 0 THEN 0
    ELSE (IF (x % 2) = 1 \/ (y % 2) = 1 THEN 1 ELSE 0) + 2 * BitOr(x \div 2, y \div 2)

(***************************************************************************)
(* JavaScript values.                                                      *)
(***************************************************************************)
Undefined == [t |-> "undefined"]
Null      == [t |-> "null"]
Str(s)    == [t |-> "string", s |-> s]
\* an ISO-8601 date string, by the instant (ms since the epoch) it denotes
IsoStr(ms) == [t |-> "isostring", ms |-> ms]
Num(n)    == [t |-> "number", n |-> n]
Bool(b)   == [t |-> "boolean", b |-> b]
\* a message text (a string), by its parts
Text(m)   == [t |-> "text", m |-> m]
\* an object, by its fields
Obj(f)    == [t |-> "object", f |-> f]
EmptyObj  == Obj(<<>>)

\* ToBoolean
Truthy(v) ==
    CASE v.t = "undefined" -> FALSE
      [] v.t = "null"      -> FALSE
      [] v.t = "string"    -> v.s # ""
      [] v.t = "number"    -> v.n # 0
      [] v.t = "boolean"   -> v.b
      [] OTHER             -> TRUE

\* a || b
OrElse(a, b) == IF Truthy(a) THEN a ELSE b

\* a function's completion: a returned value or a thrown error
Return(v) == [ok |-> TRUE, value |-> v]
Throw(e)  == [ok |-> FALSE, error |-> e]


(***************************************************************************)
(* Errors (exceptions.ts).  An error has its class, whether it is an       *)
(* instance of Error, and its message: a fixed text followed by an         *)
(* interpolated part.                                                      *)
(***************************************************************************)
Message(head, arg) == [head |-> head, arg |-> arg]

WebhookVerificationError(head, arg) ==
    [class |-> "WebhookVerificationError", isError |-> TRUE,
     message |-> Message(head, arg)]

\* the errors of the JavaScript runtime
SyntaxError == [class |-> "SyntaxError", isError |-> TRUE,
                message |-> Message("Unexpected token", <<>>)]
TypeError   == [class |-> "TypeError", isError |-> TRUE,
                message |-> Message("Cannot read properties", <<>>)]

\* `${error}` of an Error: its name (and message)
ErrorToString(e) == <<e.class>>

(***************************************************************************)
(* Payloads.  A payload is the text of the request body, here a sequence   *)
(* of JSON tokens: the braces, the literal null, and "key":value members.  *)
(***************************************************************************)
Tokens ==
    << "{", "}", "null",
       "id:evt_1",
       "type:license.created", "type:unregistered.type", "type:''",
       "event:user.created",
       "created_at:600000", "created_at:700000", "created_at:1000000",
       "created_at:1300001", "created_at:garbage", "created_at:0",
       "createdAt:1000000", "createdAt:1400000",
       "data:{k:1}", "data:null", "object:{o:1}" >>

TokenSet == {Tokens[i] : i \in 1..Len(Tokens)}

TokenIndex(tok) == CHOOSE i \in 1..Len(Tokens) : Tokens[i] = tok

MemberTokens == TokenSet \ {"{", "}", "null"}

\* the key of a member token
MemberKey(tok) ==
    CASE tok = "id:evt_1" -> "id"
      [] tok \in {"type:license.created", "type:unregistered.type", "type:''"} -> "type"
      [] tok = "event:user.created" -> "event"
      [] tok \in {"created_at:600000", "created_at:700000", "created_at:1000000",
                  "created_at:1300001", "created_at:garbage", "created_at:0"}
           -> "created_at"
      [] tok \in {"createdAt:1000000", "createdAt:1400000"} -> "createdAt"
      [] tok \in {"data:{k:1}", "data:null"} -> "data"
      [] tok = "object:{o:1}" -> "object"

\* the value of a member token
MemberValue(tok) ==
    CASE tok = "id:evt_1" -> Str("evt_1")
      [] tok = "type:license.created" -> Str("license.created")
      [] tok = "type:unregistered.type" -> Str("unregistered.type")
      [] tok = "type:''" -> Str("")
      [] tok = "event:user.created" -> Str("user.created")
      [] tok = "created_at:600000" -> IsoStr(600000)
      [] tok = "created_at:700000" -> IsoStr(700000)
      [] tok = "created_at:1000000" -> IsoStr(1000000)
      [] tok = "created_at:1300001" -> IsoStr(1300001)
      [] tok = "created_at:garbage" -> Str("garbage")
      [] tok = "created_at:0" -> Num(0)
      [] tok = "createdAt:1000000" -> IsoStr(1000000)
      [] tok = "createdAt:1400000" -> IsoStr(1400000)
      [] tok = "data:{k:1}" -> Obj([k |-> Num(1)])
      [] tok = "data:null" -> Null
      [] tok = "object:{o:1}" -> Obj([o |-> Num(1)])

\* the members of an object literal; a repeated key keeps its last value
RECURSIVE Members(_)
Members(toks) ==
    IF toks = <<>> THEN <<>>
    ELSE LET rest == Members(Tail(toks))
             k    == MemberKey(Head(toks))
         IN  IF k \in DOMAIN rest THEN rest
             ELSE [x \in DOMAIN rest \cup {k} |->
                      IF x = k THEN MemberValue(Head(toks)) ELSE rest[x]]

\* JSON.parse
JSONparse(text) ==
    IF text = <<"null">> THEN Return(Null)
    ELSE IF /\ Len(text) >= 2
            /\ text[1] = "{"
            /\ text[Len(text)] = "}"
            /\ \A i \in 2..(Len(text) - 1) : text[i] \in MemberTokens
         THEN Return(Obj(Members(SubSeq(text, 2, Len(text) - 1))))
         ELSE Throw(SyntaxError)

\* payload.key: a TypeError on null and undefined
GetProp(v, key) ==
    IF v.t \in {"null", "undefined"} THEN Throw(TypeError)
    ELSE IF v.t = "object" /\ key \in DOMAIN v.f THEN Return(v.f[key])
    ELSE Return(Undefined)

(***************************************************************************)
(* crypto-js HMAC.  The digest is modelled as a keyed function of the      *)
(* algorithm, the secret and the payload that has no collisions on the     *)
(* payloads of the model, written as a fixed number of hex digits that     *)
(* depends on the algorithm (as 40, 64 and 128 do for the real digests).   *)
(***************************************************************************)
Secrets == {"whsec_a", "whsec_b"}

SecretIndex(secret) == IF secret = "whsec_a" THEN 0 ELSE 1

Sha1   == <<"s", "h", "a", "1">>
Sha256 == <<"s", "h", "a", "2", "5", "6">>
Sha512 == <<"s", "h", "a", "5", "1", "2">>

SupportedAlgorithms == {Sha1, Sha256, Sha512}

AlgIndex(alg) == CASE alg = Sha1 -> 0 [] alg = Sha256 -> 1 [] alg = Sha512 -> 2

HexWidth(alg) == CASE alg = Sha1 -> 7 [] alg = Sha256 -> 8 [] alg = Sha512 -> 9

\* a payload as a number: one digit in 1..Len(Tokens) for each token
RECURSIVE PayloadCode(_)
PayloadCode(payload) ==
    IF payload = <<>> THEN 0
    ELSE TokenIndex(Head(payload)) + (Len(Tokens) + 1) * PayloadCode(Tail(payload))

\* WordArray.toString(): n in `width` hex digits
RECURSIVE ToHex(_, _)
ToHex(n, width) ==
    IF width = 0 THEN <<>>
    ELSE Append(ToHex(n \div 16, width - 1), HexDigits[(n % 16) + 1])

\* crypto.HmacSHA1 / HmacSHA256 / HmacSHA512 (payload, secret).toString()
Hmac(alg, payload, secret) ==
    ToHex((PayloadCode(payload) * Cardinality(Secrets) + SecretIndex(secret)) * 3
              + AlgIndex(alg),
          HexWidth(alg))

(***************************************************************************)
(* WebhookVerifier                                                         *)
(***************************************************************************)
\* an optional argument: absent (undefined) or given
Absent   == [given |-> FALSE]
Given(v) == [given |-> TRUE, v |-> v]
\* a default parameter value
DefaultTo(arg, dflt) == IF arg.given THEN arg.v ELSE dflt

\* generateSignature(payload, algorithm = 'sha256') of a verifier with `secret`
generateSignature(secret, payload, algorithm) ==
    IF toLowerCase(algorithm) \in SupportedAlgorithms
    THEN Return(algorithm \o <<"=">>
                  \o Hmac(toLowerCase(algorithm), payload, secret))
    ELSE Throw(WebhookVerificationError("Unsupported algorithm: ", algorithm))

\* the loop of secureCompare from position i on
RECURSIVE secureCompareLoop(_, _, _, _)
secureCompareLoop(a, b, i, result) ==
    IF i > Len(a) THEN result
    ELSE secureCompareLoop(a, b, i + 1,
             BitOr(result, BitXor(charCodeAt(a[i]), charCodeAt(b[i]))))

\* variant of secureCompare that stops after the first character
secureCompareFirstCharOnly(a, b) ==
    IF a = <<>> \/ b = <<>> \/ Len(a) # Len(b) THEN FALSE
    ELSE BitXor(charCodeAt(a[1]), charCodeAt(b[1])) = 0

\* secureCompare(a, b)
secureCompare(a, b) ==
    IF a = <<>> \/ b = <<>> \/ Len(a) # Len(b) THEN FALSE
    ELSE secureCompareLoop(a, b, 1, 0) = 0

\* variant of the loop of secureCompare that leaves at the first difference
RECURSIVE secureCompareExaminedEarlyExit(_, _, _)
secureCompareExaminedEarlyExit(a, b, i) ==
    IF i > Len(a) THEN <<>>
    ELSE IF a[i] # b[i] THEN <<i>>
    ELSE <<i>> \o secureCompareExaminedEarlyExit(a, b, i + 1)

\* the positions the loop of secureCompare examines from position i on
RECURSIVE secureCompareExamined(_, _, _)
secureCompareExamined(a, b, i) ==
    IF i > Len(a) THEN <<>>
    ELSE <<i>> \o secureCompareExamined(a, b, i + 1)

\* one run of secureCompare(a, b): its result and the positions it examined
secureCompareRun(a, b) ==
    IF a = <<>> \/ b = <<>> \/ Len(a) # Len(b)
    THEN [result |-> FALSE, examined |-> <<>>]
    ELSE [result |-> secureCompareLoop(a, b, 1, 0) = 0,
          examined |-> secureCompareExamined(a, b, 1)]

\* variant of verifySignature without its try / catch
verifySignatureNoCatch(secret, payload, signature, algorithm) ==
    LET expectedSignature == generateSignature(secret, payload, algorithm)
    IN  IF expectedSignature.ok
        THEN Return(secureCompare(signature, expectedSignature.value))
        ELSE expectedSignature

\* verifySignature(payload, signature, algorithm = 'sha256'): its completion
verifySignature(secret, payload, signature, algorithm) ==
    LET expectedSignature == generateSignature(secret, payload, algorithm)
    IN  IF expectedSignature.ok
        THEN Return(secureCompare(signature, expectedSignature.value))
        ELSE Return(FALSE)

\* variant of extractEventData that prefers event, createdAt and object
extractEventDataLaterFirst(payload) ==
    IF ~GetProp(payload, "id").ok THEN Throw(TypeError)
    ELSE Return(Obj([
        id        |-> GetProp(payload, "id").value,
        type      |-> OrElse(GetProp(payload, "event").value,
                             GetProp(payload, "type").value),
        createdAt |-> OrElse(GetProp(payload, "createdAt").value,
                             GetProp(payload, "created_at").value),
        data      |-> OrElse(OrElse(GetProp(payload, "object").value,
                                    GetProp(payload, "data").value),
                             EmptyObj)]))

\* extractEventData(payload)
extractEventData(payload) ==
    IF ~GetProp(payload, "id").ok THEN Throw(TypeError)
    ELSE Return(Obj([
        id        |-> GetProp(payload, "id").value,
        type      |-> OrElse(GetProp(payload, "type").value,
                             GetProp(payload, "event").value),
        createdAt |-> OrElse(GetProp(payload, "created_at").value,
                             GetProp(payload, "createdAt").value),
        data      |-> OrElse(OrElse(GetProp(payload, "data").value,
                                    GetProp(payload, "object").value),
                             EmptyObj)]))

InvalidSignature == WebhookVerificationError("Invalid webhook signature", <<>>)

InvalidJSON(error) ==
    WebhookVerificationError("Invalid JSON payload: ", ErrorToString(error))

\* what one run of parsePayload did: its completion, and whether it called
\* verifySignature and JSON.parse
Ran(completion, verified, parsed) ==
    [completion |-> completion, verified |-> verified, parsed |-> parsed]

\* variant of parsePayload that calls JSON.parse before verifySignature
parsePayloadParseFirst(secret, payload, signature, algorithm) ==
    LET data == JSONparse(payload)
    IN  IF ~data.ok
        THEN Ran(Throw(InvalidJSON(data.error)), FALSE, TRUE)
        ELSE IF ~verifySignature(secret, payload, signature, algorithm).value
        THEN Ran(Throw(InvalidSignature), TRUE, TRUE)
        ELSE IF ~extractEventData(data.value).ok
        THEN Ran(Throw(InvalidJSON(extractEventData(data.value).error)), TRUE, TRUE)
        ELSE Ran(extractEventData(data.value), TRUE, TRUE)

\* variant of parsePayload without the try / catch around JSON.parse
parsePayloadNoWrap(secret, payload, signature, algorithm) ==
    LET verified == verifySignature(secret, payload, signature, algorithm)
        data     == JSONparse(payload)
    IN  IF ~verified.ok
        THEN Ran(verified, TRUE, FALSE)
        ELSE IF ~verified.value
        THEN Ran(Throw(InvalidSignature), TRUE, FALSE)
        ELSE IF ~data.ok
        THEN Ran(data, TRUE, TRUE)
        ELSE Ran(extractEventData(data.value), TRUE, TRUE)

\* parsePayload(payload, signature, algorithm = 'sha256')
parsePayload(secret, payload, signature, algorithm) ==
    LET verified == verifySignature(secret, payload, signature, algorithm)
        data     == JSONparse(payload)
    IN  IF ~verified.ok
        THEN Ran(verified, TRUE, FALSE)
        ELSE IF ~verified.value
        THEN Ran(Throw(InvalidSignature), TRUE, FALSE)
        ELSE IF ~data.ok
        THEN Ran(Throw(InvalidJSON(data.error)), TRUE, TRUE)
        ELSE IF ~extractEventData(data.value).ok
        THEN Ran(Throw(InvalidJSON(extractEventData(data.value).error)), TRUE, TRUE)
        ELSE Ran(extractEventData(data.value), TRUE, TRUE)

\* new Date(value).getTime(): milliseconds, or NaN
NaN == [t |-> "NaN"]
DateGetTime(value) ==
    CASE value.t = "isostring" -> Num(value.ms)
      [] value.t = "number"    -> Num(value.n)
      [] value.t = "null"      -> Num(0)
      [] OTHER                 -> NaN

Abs(x) == IF x < 0 THEN -x ELSE x

\* the default of verifyTimestamp's tolerance parameter, in seconds
DefaultTolerance == 300

\* variant of verifyTimestamp without Math.abs
verifyTimestampNoAbs(payload, tolerance, currentTime) ==
    LET timestamp == payload.f.createdAt
        eventTime == DateGetTime(timestamp)
    IN  IF ~Truthy(timestamp) THEN TRUE
        ELSE IF eventTime = NaN THEN FALSE
        ELSE currentTime - eventTime.n <= tolerance * 1000

\* variant of verifyTimestamp that compares with < instead of <=
verifyTimestampStrict(payload, tolerance, currentTime) ==
    LET timestamp == payload.f.createdAt
        eventTime == DateGetTime(timestamp)
    IN  IF ~Truthy(timestamp) THEN TRUE
        ELSE IF eventTime = NaN THEN FALSE
        ELSE Abs(currentTime - eventTime.n) < tolerance * 1000

\* variant of verifyTimestamp without the early return for a missing timestamp
verifyTimestampNoEarlyReturn(payload, tolerance, currentTime) ==
    LET timestamp == payload.f.createdAt
        eventTime == DateGetTime(timestamp)
    IN  IF eventTime = NaN THEN FALSE
        ELSE Abs(currentTime - eventTime.n) <= tolerance * 1000

\* verifyTimestamp(payload, tolerance = 300) when the clock reads currentTime;
\* Math.abs(ms / 1000) <= tolerance is compared in milliseconds
verifyTimestamp(payload, tolerance, currentTime) ==
    LET timestamp == payload.f.createdAt
        eventTime == DateGetTime(timestamp)
    IN  IF ~Truthy(timestamp) THEN TRUE
        ELSE IF eventTime = NaN THEN FALSE
        ELSE Abs(currentTime - eventTime.n) <= tolerance * 1000

(***************************************************************************)
(* WebhookHandler                                                          *)
(***************************************************************************)
DefaultTypes ==
    {"license.created", "license.updated", "license.revoked", "license.expired",
     "license.validated", "app.created", "app.updated", "app.deleted",
     "user.created", "user.updated"}

\* handler functions: the bound default methods, handleUnknownEvent, and the
\* functions a caller registers
DefaultHandler(type) == [kind |-> "default", type |-> type]
UnknownHandler       == [kind |-> "unknown"]
Custom(name)         == [kind |-> "custom", name |-> name]
NoHandler            == [kind |-> "none"]

\* the handlers a caller registers: one that returns a result, one that
\* throws an Error, one that throws a value that is no Error
CustomHandlers == {Custom("returns"), Custom("throwsError"), Custom("throwsString")}

\* variant of setupDefaultHandlers that registers no handler for user.updated
setupDefaultHandlersNoUserUpdated ==
    [type \in DefaultTypes \ {"user.updated"} |-> DefaultHandler(type)]

\* setupDefaultHandlers(): the registry after construction
setupDefaultHandlers == [type \in DefaultTypes |-> DefaultHandler(type)]

\* what a method of the handler did: its completion and the registry it left
Effect(completion, registry) == [completion |-> completion, handlers |-> registry]

\* variant of on that keeps the handler a type already has
onKeepExisting(registry, eventType, handler) ==
    Effect(Return(Undefined),
           [type \in DOMAIN registry \cup {eventType} |->
               IF type \in DOMAIN registry THEN registry[type] ELSE handler])

\* on(eventType, handler): this.handlers.set(eventType, handler)
on(registry, eventType, handler) ==
    Effect(Return(Undefined),
           [type \in DOMAIN registry \cup {eventType} |->
               IF type = eventType THEN handler ELSE registry[type]])

\* variant of off that leaves the entry in place
offKeepsEntry(registry, eventType) == Effect(Return(Undefined), registry)

\* variant of off that throws when the type has no entry
offStrict(registry, eventType) ==
    IF eventType \in DOMAIN registry
    THEN Effect(Return(Undefined),
                [type \in DOMAIN registry \ {eventType} |-> registry[type]])
    ELSE Effect(Throw([class |-> "Error", isError |-> TRUE,
                       message |-> Message("No handler registered", <<>>)]),
                registry)

\* off(eventType): this.handlers.delete(eventType)
off(registry, eventType) ==
    Effect(Return(Undefined),
           [type \in DOMAIN registry \ {eventType} |-> registry[type]])

\* clearHandlers(): this.handlers.clear()
clearHandlers(registry) ==
    Effect(Return(Undefined), [type \in {} |-> NoHandler])

\* variant of the WebhookVerifier constructor without the check of the secret
NewWebhookVerifierUnchecked(secretArg) == Return([secret |-> secretArg])

\* new WebhookVerifier(secret)
NewWebhookVerifier(secretArg) ==
    IF ~Truthy(secretArg)
    THEN Throw(WebhookVerificationError("Webhook secret is required", <<>>))
    ELSE Return([secret |-> secretArg])

\* new WebhookHandler(secret): the verifier, then setupDefaultHandlers()
NewWebhookHandler(secretArg) ==
    LET verifier == NewWebhookVerifier(secretArg)
    IN  IF ~verifier.ok THEN verifier
        ELSE Return([verifier |-> verifier.value,
                     handlers |-> setupDefaultHandlers])

\* a call recorded in the log: the method, its arguments (the secret of the
\* constructor, the event type and the handler of on and off) and its
\* completion
Logged(op, secretArg, eventType, handler, completion) ==
    [op |-> op, secret |-> secretArg, type |-> eventType, handler |-> handler,
     completion |-> completion]

\* variant of handleUnknownEvent that reports "processed"
handleUnknownEventProcessed(event) ==
    Return(Obj([status |-> Str("processed"), event |-> event.f.type]))

\* handleUnknownEvent(event)
handleUnknownEvent(event) ==
    Return(Obj([status |-> Str("ignored"), event |-> event.f.type]))

\* handleLicenseCreated(event) ... handleUserUpdated(event)
handleDefault(type, event) ==
    Return(Obj([status |-> Str("processed"), event |-> Str(type)]))

\* the completion of handler(event)
RunHandler(handler, event) ==
    CASE handler.kind = "default" -> handleDefault(handler.type, event)
      [] handler.kind = "unknown" -> handleUnknownEvent(event)
      [] handler = Custom("returns") -> Return(Obj([status |-> Str("custom")]))
      [] handler = Custom("throwsError") ->
            Throw([class |-> "Error", isError |-> TRUE,
                   message |-> Message("handler failed", <<>>)])
      [] handler = Custom("throwsString") ->
            Throw([class |-> "string", isError |-> FALSE,
                   message |-> Message("boom", <<>>)])

\* this.handlers.get(event.type) || this.handleUnknownEvent
ResolveHandler(registry, type) ==
    IF type.t = "string" /\ type.s \in DOMAIN registry
    THEN registry[type.s]
    ELSE UnknownHandler

\* { ...base, ...value }
Spread(base, value) ==
    IF value.t = "object"
    THEN [k \in DOMAIN base \cup DOMAIN value.f |->
             IF k \in DOMAIN value.f THEN value.f[k] ELSE base[k]]
    ELSE base

\* a promise
Pending     == [state |-> "pending"]
Fulfilled(v) == [state |-> "fulfilled", value |-> v]
Rejected(e)  == [state |-> "rejected", reason |-> e]

TooOld == WebhookVerificationError("Webhook timestamp is too old", <<>>)

\* variant of the catch block without the instanceof Error test
FailureEnvelopeMessageOnly(error) ==
    Obj([valid |-> Bool(FALSE), error |-> Text(error.message)])

\* the catch block of handle
FailureEnvelope(error) ==
    Obj([valid |-> Bool(FALSE),
         error |-> Text(IF error.isError THEN error.message
                        ELSE Message("Unknown error", <<>>))])

\* { valid: true, event, ...result }
SuccessEnvelope(event, result) ==
    Obj(Spread([valid |-> Bool(TRUE), event |-> event], result))

\* variant of handle whose await is outside the try block
handleSettleUncaught(event, result) ==
    IF result.ok THEN Fulfilled(SuccessEnvelope(event, result.value))
    ELSE Rejected(result.error)

\* handle after `await this.handleEvent(event)` completed with `result`
handleSettle(event, result) ==
    IF result.ok THEN Fulfilled(SuccessEnvelope(event, result.value))
    ELSE Fulfilled(FailureEnvelope(result.error))

\* one call of handle: its arguments, the clock when it was made, what
\* parsePayload did, whether verifyTimestamp was called, whether the registry
\* had an entry for the event's type, the handler invoked, and the promise
\* handle returned
Call(payload, signature, algorithm, at, ran, checked, hadEntry, handler, promise) ==
    [payload |-> payload, signature |-> signature, algorithm |-> algorithm,
     at |-> at, ran |-> ran, timestampChecked |-> checked,
     hadEntry |-> hadEntry, handler |-> handler, promise |-> promise]

\* variant of handle that routes the event without verifyTimestamp
handleStartNoTimestamp(secret, registry, currentTime, payload, signature, algorithm) ==
    LET ran   == parsePayload(secret, payload, signature, DefaultTo(algorithm, Sha256))
        event == ran.completion.value
        mk(checked, handler, promise) ==
            Call(payload, signature, algorithm, currentTime, ran, checked,
                 /\ ran.completion.ok
                 /\ event.f.type.t = "string"
                 /\ event.f.type.s \in DOMAIN registry,
                 handler, promise)
    IN  IF ~ran.completion.ok
        THEN mk(FALSE, NoHandler, Fulfilled(FailureEnvelope(ran.completion.error)))
        ELSE mk(TRUE, ResolveHandler(registry, event.f.type), Pending)

\* handle(payload, signature, algorithm = 'sha256') up to its await
handleStart(secret, registry, currentTime, payload, signature, algorithm) ==
    LET ran   == parsePayload(secret, payload, signature, DefaultTo(algorithm, Sha256))
        event == ran.completion.value
        mk(checked, handler, promise) ==
            Call(payload, signature, algorithm, currentTime, ran, checked,
                 /\ ran.completion.ok
                 /\ event.f.type.t = "string"
                 /\ event.f.type.s \in DOMAIN registry,
                 handler, promise)
    IN  IF ~ran.completion.ok
        THEN mk(FALSE, NoHandler, Fulfilled(FailureEnvelope(ran.completion.error)))
        ELSE IF ~verifyTimestamp(event, DefaultTolerance, currentTime)
        THEN mk(TRUE, NoHandler, Fulfilled(FailureEnvelope(TooOld)))
        ELSE mk(TRUE, ResolveHandler(registry, event.f.type), Pending)

(***************************************************************************)
(* exceptions.ts: the errors of the client, by class and status code.      *)
(***************************************************************************)
LicenseChainException(class, head, code, statusCode) ==
    [class |-> class, isError |-> TRUE, message |-> Message(head, <<>>),
     code |-> code, statusCode |-> statusCode]

\* createErrorFromResponse(statusCode, message, code, details)
createErrorFromResponse(statusCode) ==
    LET error(class) == LicenseChainException(class, "response", Undefined,
                                              Num(statusCode))
    IN  CASE statusCode = 400 -> error("ValidationError")
          [] statusCode \in {401, 403} -> error("AuthenticationError")
          [] statusCode = 404 -> error("NotFoundError")
          [] statusCode = 429 -> error("RateLimitError")
          [] statusCode = 408 -> error("TimeoutError")
          [] statusCode \in {500, 502, 503, 504} -> error("ServerError")
          [] OTHER ->
               IF statusCode >= 400 /\ statusCode < 500 THEN error("ValidationError")
               ELSE IF statusCode >= 500 THEN error("ServerError")
               ELSE error("LicenseChainException")

\* isRetryableError(error)
isRetryableError(error) ==
    error.class \in {"NetworkError", "ServerError", "RateLimitError", "TimeoutError"}

(***************************************************************************)
(* LicenseChainClient: one request and the response interceptor.           *)
(***************************************************************************)
\* the defaults of the client's configuration
DefaultRetryAttempts == 3
DefaultRetryDelay    == 1000

\* what the transport does with a request that was sent: a response with a
\* 2xx status, an error that carries a response, an error without a response
\* (error.request is set), an error raised before the request was made
Response(status)      == [kind |-> "response", response |-> TRUE, request |-> TRUE,
                          status |-> status]
ErrorResponse(status) == [kind |-> "error", response |-> TRUE, request |-> TRUE,
                          status |-> status]
NoResponse            == [kind |-> "error", response |-> FALSE, request |-> TRUE,
                          status |-> 0]
SetupError            == [kind |-> "error", response |-> FALSE, request |-> FALSE,
                          status |-> 0]
NoOutcome             == [kind |-> "none", response |-> FALSE, request |-> FALSE,
                          status |-> 0]

RECURSIVE Pow2(_)
Pow2(n) == IF n <= 0 THEN 1 ELSE 2 * Pow2(n - 1)

\* originalRequest._retryCount as a number
Count(retryCount) == IF retryCount.t = "number" THEN retryCount.n ELSE 0

\* the interceptor's answer to an error: the request's _retryCount afterwards
\* and either a retry after `delay` ms or the error thrown to the caller
Retry(retryCount, delay) ==
    [retry |-> TRUE, retryCount |-> retryCount, delay |-> delay]
Rethrow(retryCount, error) ==
    [retry |-> FALSE, retryCount |-> retryCount, error |-> error]

\* variant of the error callback that compares _retryCount with <=
onRejectedOneMore(retryAttempts, retryDelay, retryCount, error) ==
    LET retryable == /\ error.response
                     /\ isRetryableError(createErrorFromResponse(error.status))
        counted   == IF retryable /\ ~Truthy(retryCount) THEN Num(0) ELSE retryCount
    IN  IF retryable /\ Count(counted) <= retryAttempts
        THEN Retry(Num(Count(counted) + 1), retryDelay * Pow2(Count(counted)))
        ELSE IF error.response
        THEN Rethrow(counted, createErrorFromResponse(error.status))
        ELSE Rethrow(counted,
                 LicenseChainException("LicenseChainException", "Network error",
                                       Str("NETWORK_ERROR"), Undefined))

\* the response interceptor's error callback
onRejected(retryAttempts, retryDelay, retryCount, error) ==
    LET retryable == /\ error.response
                     /\ isRetryableError(createErrorFromResponse(error.status))
        counted   == IF retryable /\ ~Truthy(retryCount) THEN Num(0) ELSE retryCount
    IN  IF retryable /\ Count(counted) < retryAttempts
        THEN Retry(Num(Count(counted) + 1), retryDelay * Pow2(Count(counted)))
        ELSE IF error.response
        THEN Rethrow(counted, createErrorFromResponse(error.status))
        ELSE IF error.request
        THEN Rethrow(counted,
                 LicenseChainException("LicenseChainException", "Network error",
                                       Str("NETWORK_ERROR"), Undefined))
        ELSE Rethrow(counted,
                 LicenseChainException("LicenseChainException", "Request error",
                                       Str("REQUEST_ERROR"), Undefined))

\* a request: the client's configuration, where the request is, its
\* _retryCount, how often it was sent, the transport's last outcome, the last
\* backoff delay, and the completion the caller sees
Request(retryAttempts, retryDelay, phase, retryCount, sent, last, delay, result) ==
    [retryAttempts |-> retryAttempts, retryDelay |-> retryDelay, phase |-> phase,
     retryCount |-> retryCount, sent |-> sent, last |-> last, delay |-> delay,
     result |-> result]

NoResult == [ok |-> FALSE, error |-> [class |-> "none"]]

NoRequest == Request(0, 0, "none", Undefined, 0, NoOutcome, 0, NoResult)

(***************************************************************************)
(* EnhancedClient: the session fields and the methods that read or write   *)
(* them.  makeRequest is the request to the server; a method is given what *)
(* makeRequest completes with, and yields the fields afterwards, the       *)
(* request it sent (if any) and the promise it returned.  Calls are        *)
(* awaited one at a time.                                                  *)
(***************************************************************************)
LicenseChainError(head, arg) ==
    [class |-> "LicenseChainError", isError |-> TRUE,
     message |-> Message(head, arg)]

\* the fields after construction
NewEnhancedClient ==
    [initialized |-> FALSE, sessionId |-> Null, userData |-> Null]

NoCall == [op |-> "none"]
NotSent == [sent |-> FALSE]
Sent(body) == [sent |-> TRUE, body |-> body]
Did(client, request, promise) ==
    [client |-> client, request |-> request, promise |-> promise]

\* isLoggedIn()
isLoggedIn(client) == client.userData # Null

\* ensureInitialized()
ensureInitialized(client) ==
    IF ~client.initialized
    THEN Throw(LicenseChainError("Client not initialized. Call init() first.", <<>>))
    ELSE Return(Undefined)

\* variant of ensureLoggedIn that does not call ensureInitialized
ensureLoggedInOnly(client) ==
    IF ~isLoggedIn(client)
    THEN Throw(LicenseChainError("User not logged in", <<>>))
    ELSE Return(Undefined)

\* ensureLoggedIn()
ensureLoggedIn(client) ==
    IF ~ensureInitialized(client).ok THEN ensureInitialized(client)
    ELSE IF ~isLoggedIn(client)
    THEN Throw(LicenseChainError("User not logged in", <<>>))
    ELSE Return(Undefined)

\* response.success, for what makeRequest completed with
Success(outcome) ==
    IF ~outcome.ok THEN outcome
    ELSE IF ~GetProp(outcome.value, "success").ok
    THEN GetProp(outcome.value, "success")
    ELSE Return(Bool(Truthy(GetProp(outcome.value, "success").value)))

\* init()
init(client, outcome) ==
    IF client.initialized THEN Did(client, NotSent, Fulfilled(Bool(TRUE)))
    ELSE LET request == Sent([type |-> "init"])
         IN  IF ~Success(outcome).ok
             THEN Did(client, request,
                      Rejected(LicenseChainError("Initialization failed",
                                   IF Success(outcome).error.isError
                                   THEN Success(outcome).error.message
                                   ELSE Message("Unknown error", <<>>))))
             ELSE IF Success(outcome).value.b
             THEN Did([client EXCEPT
                          !.sessionId = GetProp(outcome.value, "sessionid").value,
                          !.initialized = TRUE],
                      request, Fulfilled(Bool(TRUE)))
             ELSE Did(client, request, Fulfilled(Bool(FALSE)))

\* licenseLogin(licenseKey)
licenseLogin(client, outcome) ==
    IF ~ensureInitialized(client).ok
    THEN Did(client, NotSent, Rejected(ensureInitialized(client).error))
    ELSE LET request == Sent([type |-> "license"])
         IN  IF ~Success(outcome).ok
             THEN Did(client, request, Rejected(Success(outcome).error))
             ELSE IF Success(outcome).value.b
             THEN Did([client EXCEPT
                          !.userData = GetProp(outcome.value, "info").value],
                      request, Fulfilled(outcome.value))
             ELSE Did(client, request,
                      Rejected(LicenseChainError(
                          IF Truthy(GetProp(outcome.value, "message").value)
                          THEN GetProp(outcome.value, "message").value.s
                          ELSE "License login failed", <<>>)))

\* setVar(varName, data); getVar, logMessage, downloadFile, getOnlineUsers,
\* chatGet, chatSend, banUser, unbanUser, getAllUsers, getUser, updateUser,
\* deleteUser and getWebhook have the same guard and send the same sessionid
setVar(client, outcome) ==
    IF ~ensureLoggedIn(client).ok
    THEN Did(client, NotSent, Rejected(ensureLoggedIn(client).error))
    ELSE LET request == Sent([type |-> "setvar", sessionid |-> client.sessionId])
         IN  IF ~Success(outcome).ok
             THEN Did(client, request, Rejected(Success(outcome).error))
             ELSE Did(client, request,
                      Fulfilled(OrElse(GetProp(outcome.value, "success").value,
                                       Bool(FALSE))))

\* getAppStats()
getAppStats(client, outcome) ==
    IF ~ensureInitialized(client).ok
    THEN Did(client, NotSent, Rejected(ensureInitialized(client).error))
    ELSE LET request == Sent([type |-> "app", sessionid |-> client.sessionId])
         IN  IF ~Success(outcome).ok
             THEN Did(client, request, Rejected(Success(outcome).error))
             ELSE Did(client, request,
                      Fulfilled(IF Success(outcome).value.b
                                THEN outcome.value ELSE Null))

\* logout()
logout(client, outcome) ==
    IF ~isLoggedIn(client) THEN Did(client, NotSent, Fulfilled(Bool(TRUE)))
    ELSE LET request == Sent([type |-> "logout", sessionid |-> client.sessionId])
         IN  IF ~Success(outcome).ok
             THEN Did(client, request, Fulfilled(Bool(FALSE)))
             ELSE IF Success(outcome).value.b
             THEN Did([client EXCEPT !.userData = Null, !.sessionId = Null],
                      request, Fulfilled(Bool(TRUE)))
             ELSE Did(client, request, Fulfilled(Bool(FALSE)))

(***************************************************************************)
(* LicenseValidator (license-validator.ts).  client.validateLicense is the *)
(* request to the server: it completes with a ValidationResult or throws.  *)
(***************************************************************************)
\* an array, by its elements
Arr(a) == [t |-> "array", a |-> a]

\* value?.key
Opt(v, key) ==
    IF v.t \in {"null", "undefined"} THEN Undefined ELSE GetProp(v, key).value

\* array.includes(x)
Includes(array, x) == \E i \in DOMAIN array.a : array.a[i] = x

\* variant of validateLicense without its try / catch
validateLicenseRethrows(outcome) ==
    IF outcome.ok THEN Fulfilled(outcome.value) ELSE Rejected(outcome.error)

\* validateLicense(licenseKey, appId), client.validateLicense completing
\* with `outcome`
validateLicense(outcome) ==
    IF outcome.ok THEN Fulfilled(outcome.value)
    ELSE Fulfilled(Obj([valid |-> Bool(FALSE),
                        error |-> Text(IF outcome.error.isError
                                       THEN outcome.error.message
                                       ELSE Message("Unknown error", <<>>))]))

\* Promise.all(promises), the promises having settled in the order `order`
PromiseAll(promises, order) ==
    IF \E i \in DOMAIN order : promises[order[i]].state = "rejected"
    THEN LET first == CHOOSE i \in DOMAIN order :
                        /\ promises[order[i]].state = "rejected"
                        /\ \A j \in 1..(i - 1) : promises[order[j]].state # "rejected"
         IN  Rejected(promises[order[first]].reason)
    ELSE IF \A i \in DOMAIN promises : promises[i].state = "fulfilled"
    THEN Fulfilled(Arr([i \in DOMAIN promises |-> promises[i].value]))
    ELSE Pending

\* { ...result, valid: false, error }
Invalid(result, head, arg) ==
    Obj(Spread(result.f, Obj([valid |-> Bool(FALSE),
                              error |-> Text(Message(head, arg))])))

\* validateWithRules(licenseKey, rules, appId) after its await, validateLicense
\* having resolved with `result`
validateWithRules(result, rules) ==
    IF ~GetProp(result, "valid").ok THEN Rejected(TypeError)
    ELSE IF ~Truthy(GetProp(result, "valid").value) \/ ~Truthy(rules)
    THEN Fulfilled(result)
    ELSE LET license  == GetProp(result, "license").value
             usage    == Opt(license, "usageCount")
             features == Opt(license, "features")
             domain   == Opt(Opt(license, "metadata"), "domain")
             ip       == Opt(Opt(license, "metadata"), "ipAddress")
             maxUsage == GetProp(rules, "maxUsage").value
             allowed  == GetProp(rules, "allowedFeatures").value
             required == GetProp(rules, "requiredFeatures").value
             domains  == GetProp(rules, "allowedDomains").value
             ips      == GetProp(rules, "allowedIPs").value
             invalidFeatures ==
                 SelectSeq(features.a, LAMBDA feature : ~Includes(allowed, feature))
             missingFeatures ==
                 SelectSeq(required.a, LAMBDA feature : ~Includes(features, feature))
         IN  IF Truthy(maxUsage) /\ Truthy(usage) /\ usage.n > maxUsage.n
             THEN Fulfilled(Invalid(result, "Usage limit exceeded", <<>>))
             ELSE IF Truthy(allowed) /\ Truthy(features) /\ Len(invalidFeatures) > 0
             THEN Fulfilled(Invalid(result, "Invalid features", invalidFeatures))
             ELSE IF Truthy(required) /\ Truthy(features) /\ Len(missingFeatures) > 0
             THEN Fulfilled(Invalid(result, "Missing required features",
                                    missingFeatures))
             ELSE IF Truthy(domains) /\ Truthy(domain) /\ ~Includes(domains, domain)
             THEN Fulfilled(Invalid(result, "Domain not allowed", <<domain>>))
             ELSE IF Truthy(ips) /\ Truthy(ip) /\ ~Includes(ips, ip)
             THEN Fulfilled(Invalid(result, "IP address not allowed", <<ip>>))
             ELSE Fulfilled(result)

(***************************************************************************)
(* State.                                                                  *)
(***************************************************************************)
VARIABLES
    secret,     \* WebhookVerifier.secret
    handlers,   \* WebhookHandler.handlers: event type -> handler
    now,        \* the clock new Date() reads, in ms
    calls,      \* the calls of handle made so far
    direct,     \* the last call made on the verifier itself
    log,        \* the constructor, on, off and clearHandlers calls recorded
    peer,       \* a second WebhookHandler: its handlers and its handle calls
    http,       \* one request of a LicenseChainClient through its interceptors
    enhanced,   \* an EnhancedClient: its fields and the last call made on it
    validator   \* the last call made on a LicenseValidator

vars == <<secret, handlers, now, calls, direct, log, peer, http, enhanced,
          validator>>

\* the instants the clock shows
ClockTimes == {1000000, 1000001}

\* the state after new WebhookHandler("whsec_a"), made twice
Constructed ==
    /\ secret = "whsec_a"
    /\ handlers = setupDefaultHandlers
    /\ now = 1000000
    /\ calls = <<>>
    /\ log = <<Logged("constructor", Str("whsec_a"), "", NoHandler,
                      NewWebhookHandler(Str("whsec_a")))>>
    /\ peer = [handlers |-> setupDefaultHandlers, calls |-> <<>>]

Init ==
    /\ enhanced = [client |-> NewEnhancedClient, call |-> NoCall]
    /\ validator = NoCall
    /\ Constructed
    /\ direct = [op |-> "none"]
    /\ http = NoRequest

(***************************************************************************)
(* Inputs.                                                                 *)
(***************************************************************************)
SeqsUpTo(S, n) == UNION {[1..k -> S] : k \in 0..n}

\* s with one element replaced by another of `alphabet`
Substitutions(s, alphabet) ==
    {[s EXCEPT ![i] = c] : i \in DOMAIN s, c \in alphabet} \ {s}

VerifierAlphabet == {"{", "}", "null"}

\* the payloads passed to the verifier directly
PayloadInputs == SeqsUpTo(VerifierAlphabet, MaxPayloadLen)

ShaUpper == <<"S", "H", "A", "2", "5", "6">>
Md5      == <<"m", "d", "5">>

AlgorithmInputs ==
    {Absent, Given(Sha1), Given(Sha256), Given(Sha512), Given(ShaUpper),
     Given(Md5), Given(<<>>)}

\* the signatures generated with any secret and supported algorithm
Signed(payload) ==
    {generateSignature(sec, payload, a).value :
        sec \in Secrets, a \in SupportedAlgorithms \cup {ShaUpper}}

\* the signatures passed with `payload`: none, the genuine one, the genuine
\* one with one character changed or cut off, those made with another secret
\* or algorithm, and those of the payloads one token away
SignatureInputs(payload, algorithm) ==
    LET own == generateSignature(secret, payload, algorithm)
        genuine == IF own.ok THEN {own.value} ELSE {}
    IN  {<<>>} \cup genuine
          \cup UNION {Substitutions(g, Chars) : g \in genuine}
          \cup {SubSeq(g, 1, Len(g) - 1) : g \in genuine}
          \cup Signed(payload)
          \cup UNION {Signed(q) : q \in Substitutions(payload, VerifierAlphabet)}

(***************************************************************************)
(* Calls on the verifier: its methods are functions of their arguments and *)
(* the secret, so a behaviour draws the arguments and makes one call.      *)
(***************************************************************************)
\* the event payloads passed to parsePayload with their signature: an object
\* of up to two members with different keys
EventPayloads ==
    {<<"{", m, "}">> : m \in MemberTokens}
        \cup {<<"{", m[1], m[2], "}">> :
                 m \in {mm \in MemberTokens \X MemberTokens :
                           MemberKey(mm[1]) # MemberKey(mm[2])}}

\* the events and tolerances passed to verifyTimestamp: no timestamp, an empty
\* one, one that is no date, and dates around the clock time less and plus
\* the tolerance
TimestampInputs ==
    {Undefined, Str(""), Str("garbage")}
        \cup {IsoStr(ms) : ms \in {699999, 700000, 700001, 998999, 999000,
                                    1000000, 1001000, 1001001, 1299999, 1300000,
                                    1300001}}

EventAt(createdAt) ==
    Obj([id |-> Str("evt_1"), type |-> Str("license.created"),
         createdAt |-> createdAt, data |-> EmptyObj])

ToleranceInputs == {Absent, Given(0), Given(1), Given(300), Given(301)}

InitVerifier ==
    /\ enhanced = [client |-> NewEnhancedClient, call |-> NoCall]
    /\ validator = NoCall
    /\ Constructed
    /\ http = NoRequest
    /\ \/ \E payload \in PayloadInputs, algorithm \in AlgorithmInputs :
            \E signature \in SignatureInputs(payload, DefaultTo(algorithm, Sha256)) :
               direct = [op |-> "arguments", payload |-> payload,
                         signature |-> signature, algorithm |-> algorithm]
       \/ \E payload \in EventPayloads :
               direct = [op |-> "arguments", payload |-> payload,
                         signature |-> generateSignature(secret, payload, Sha256).value,
                         algorithm |-> Absent]
       \/ \E createdAt \in TimestampInputs, tolerance \in ToleranceInputs :
               direct = [op |-> "timestampArguments", event |-> EventAt(createdAt),
                         tolerance |-> tolerance]

\* the call made with the drawn arguments, and what it did
Direct(op, ran) ==
    [op |-> op, payload |-> direct.payload, signature |-> direct.signature,
     algorithm |-> direct.algorithm, ran |-> ran]

CallGenerateSignature ==
    /\ direct.op = "arguments"
    /\ direct' = Direct("generateSignature",
                    Ran(generateSignature(secret, direct.payload,
                            DefaultTo(direct.algorithm, Sha256)), FALSE, FALSE))
    /\ UNCHANGED <<secret, handlers, now, calls, log, peer, http, enhanced, validator>>

CallVerifySignature ==
    /\ direct.op = "arguments"
    /\ direct' = Direct("verifySignature",
                    Ran(verifySignature(secret, direct.payload, direct.signature,
                            DefaultTo(direct.algorithm, Sha256)), TRUE, FALSE))
    /\ UNCHANGED <<secret, handlers, now, calls, log, peer, http, enhanced, validator>>

CallParsePayload ==
    /\ direct.op = "arguments"
    /\ direct' = Direct("parsePayload",
                    parsePayload(secret, direct.payload, direct.signature,
                        DefaultTo(direct.algorithm, Sha256)))
    /\ UNCHANGED <<secret, handlers, now, calls, log, peer, http, enhanced, validator>>

\* secureCompare(signature, expectedSignature), as verifySignature calls it
CallSecureCompare ==
    /\ direct.op = "arguments"
    /\ generateSignature(secret, direct.payload,
                         DefaultTo(direct.algorithm, Sha256)).ok
    /\ LET expectedSignature ==
               generateSignature(secret, direct.payload,
                                 DefaultTo(direct.algorithm, Sha256)).value
       IN  direct' = [op |-> "secureCompare", a |-> direct.signature,
                      b |-> expectedSignature,
                      run |-> secureCompareRun(direct.signature, expectedSignature)]
    /\ UNCHANGED <<secret, handlers, now, calls, log, peer, http, enhanced, validator>>

\* verifyTimestamp(event, tolerance): reading payload.createdAt is outside
\* the try block
CallVerifyTimestamp ==
    /\ direct.op = "timestampArguments"
    /\ direct' = [op |-> "verifyTimestamp", event |-> direct.event,
                  tolerance |-> direct.tolerance, at |-> now,
                  ran |-> Ran(IF GetProp(direct.event, "createdAt").ok
                              THEN Return(verifyTimestamp(direct.event,
                                              DefaultTo(direct.tolerance, DefaultTolerance),
                                              now))
                              ELSE Throw(TypeError),
                              FALSE, FALSE)]
    /\ UNCHANGED <<secret, handlers, now, calls, log, peer, http, enhanced, validator>>

NextVerifier ==
    \/ CallGenerateSignature
    \/ CallVerifySignature
    \/ CallParsePayload
    \/ CallSecureCompare
    \/ CallVerifyTimestamp

SpecVerifier == InitVerifier /\ [][NextVerifier]_vars

(***************************************************************************)
(* The WebhookHandler: calls of handle, on, off and clearHandlers, and the *)
(* clock.                                                                  *)
(***************************************************************************)
HandlePayloads ==
    { <<"{", "type:license.created", "created_at:1000000", "}">>,
      <<"{", "id:evt_1", "type:license.created", "created_at:600000", "}">>,
      <<"{", "type:license.created", "created_at:700000", "data:{k:1}", "}">>,
      <<"{", "type:license.created", "created_at:1300001", "}">>,
      <<"{", "type:license.created", "created_at:garbage", "}">>,
      <<"{", "type:unregistered.type", "}">>,
      <<"{", "type:unregistered.type", "created_at:1000000", "}">>,
      <<"{", "event:user.created", "createdAt:1400000", "}">>,
      <<"{", "type:license.created">>,
      <<"null">> }

\* the signature the sender makes for `payload`
SignatureBy(sec, payload, algorithm) ==
    generateSignature(sec, payload, DefaultTo(algorithm, Sha256)).value

\* the arguments of handle: correctly signed payloads, payloads signed with
\* another secret, an empty signature, an unsupported algorithm, and a
\* payload sent with the signature of another
HandleInputs ==
    {<<p, SignatureBy(secret, p, Absent), Absent>> : p \in HandlePayloads}
    \cup {<< <<"{", "type:license.created", "created_at:1000000", "}">>,
             SignatureBy(secret,
                 <<"{", "type:license.created", "created_at:1000000", "}">>,
                 Given(ShaUpper)),
             Given(ShaUpper) >>,
          << <<"{", "type:license.created", "created_at:1000000", "}">>,
             SignatureBy(CHOOSE sec \in Secrets : sec # secret,
                 <<"{", "type:license.created", "created_at:1000000", "}">>, Absent),
             Absent >>,
          << <<"{", "type:license.created">>,
             SignatureBy(CHOOSE sec \in Secrets : sec # secret,
                 <<"{", "type:license.created">>, Absent),
             Absent >>,
          << <<"{", "type:unregistered.type", "}">>, <<>>, Absent >>,
          << <<"{", "type:unregistered.type", "}">>,
             SignatureBy(secret, <<"{", "type:unregistered.type", "}">>, Absent),
             Given(Md5) >>,
          << <<"{", "type:license.created", "created_at:1000000", "}">>,
             SignatureBy(secret,
                 <<"{", "id:evt_1", "type:license.created", "created_at:600000", "}">>,
                 Absent),
             Absent >>}

\* the registrations a caller makes and removes
OnInputs ==
    {<<"license.created", handler>> : handler \in CustomHandlers}
        \cup {<<"unregistered.type", Custom("returns")>>}

OffTypes == {"license.created", "unregistered.type"}

\* variant of HandleStart that registers the handler it resolved
HandleStartCaching ==
    /\ Len(calls) < MaxCalls
    /\ \E input \in HandleInputs :
          LET c == handleStart(secret, handlers, now, input[1], input[2], input[3])
          IN  /\ calls' = Append(calls, c)
              /\ handlers' = IF /\ c.handler # NoHandler
                                /\ c.ran.completion.value.f.type.t = "string"
                             THEN on(handlers, c.ran.completion.value.f.type.s,
                                     c.handler).handlers
                             ELSE handlers
    /\ UNCHANGED <<secret, now, direct, log, peer, http, enhanced, validator>>

\* handle(payload, signature, algorithm) runs up to its await
HandleStart ==
    /\ Len(calls) < MaxCalls
    /\ \E input \in HandleInputs :
          calls' = Append(calls,
                      handleStart(secret, handlers, now, input[1], input[2], input[3]))
    /\ UNCHANGED <<secret, handlers, now, direct, log, peer, http, enhanced, validator>>

\* variant of HandleResume that looks the handler up after the await
HandleResumeLateBinding(i) ==
    /\ calls[i].promise = Pending
    /\ calls' = [calls EXCEPT ![i].promise =
                    handleSettle(calls[i].ran.completion.value,
                                 RunHandler(ResolveHandler(handlers,
                                                calls[i].ran.completion.value.f.type),
                                            calls[i].ran.completion.value))]
    /\ UNCHANGED <<secret, handlers, now, direct, log, peer, http, enhanced, validator>>

\* the handler of call i completes and handle continues after its await
HandleResume(i) ==
    /\ calls[i].promise = Pending
    /\ calls' = [calls EXCEPT ![i].promise =
                    handleSettle(calls[i].ran.completion.value,
                                 RunHandler(calls[i].handler,
                                            calls[i].ran.completion.value))]
    /\ UNCHANGED <<secret, handlers, now, direct, log, peer, http, enhanced, validator>>

\* variant of On for a Map shared by all instances
OnSharedMap(eventType, handler) ==
    /\ handlers' = on(handlers, eventType, handler).handlers
    /\ peer' = [peer EXCEPT !.handlers = handlers']
    /\ UNCHANGED <<secret, now, calls, direct, log, http, enhanced, validator>>

\* on(eventType, handler)
On(eventType, handler) ==
    /\ handlers' = on(handlers, eventType, handler).handlers
    /\ UNCHANGED <<secret, now, calls, direct, log, peer, http, enhanced, validator>>

\* off(eventType)
Off(eventType) ==
    /\ handlers' = off(handlers, eventType).handlers
    /\ UNCHANGED <<secret, now, calls, direct, log, peer, http, enhanced, validator>>

\* clearHandlers()
ClearHandlers ==
    /\ handlers' = clearHandlers(handlers).handlers
    /\ UNCHANGED <<secret, now, calls, direct, log, peer, http, enhanced, validator>>

\* time passes
Tick ==
    /\ \E later \in ClockTimes : later > now /\ now' = later
    /\ UNCHANGED <<secret, handlers, calls, direct, log, peer, http, enhanced, validator>>

Next ==
    \/ HandleStart
    \/ \E i \in DOMAIN calls : HandleResume(i)
    \/ \E input \in OnInputs : On(input[1], input[2])
    \/ \E eventType \in OffTypes : Off(eventType)
    \/ ClearHandlers
    \/ Tick

Spec == Init /\ [][Next]_vars

(***************************************************************************)
(* The life of one WebhookHandler with its constructor, on, off and        *)
(* clearHandlers calls recorded: before the constructor ran there is no    *)
(* instance, and the variables hold no secret and no entry.                *)
(***************************************************************************)
NoEntries == [type \in {} |-> NoHandler]

\* the secrets passed to the constructor: none, null, the empty string, and
\* two secrets
SecretArguments == {Undefined, Null, Str(""), Str("whsec_a"), Str("whsec_b")}

\* this.secret as the key of the HMAC
KeyOf(value) == IF value.t = "string" THEN value.s ELSE ""

InitRegistry ==
    /\ enhanced = [client |-> NewEnhancedClient, call |-> NoCall]
    /\ validator = NoCall
    /\ secret = ""
    /\ handlers = NoEntries
    /\ now = 1000000
    /\ calls = <<>>
    /\ direct = [op |-> "none"]
    /\ log = <<>>
    /\ peer = [handlers |-> NoEntries, calls |-> <<>>]
    /\ http = NoRequest

\* the constructor returned an instance
Instance == log # <<>> /\ log[1].completion.ok

\* new WebhookHandler(secret)
Construct ==
    /\ log = <<>>
    /\ \E secretArg \in SecretArguments :
          LET made == NewWebhookHandler(secretArg)
          IN  /\ log' = <<Logged("constructor", secretArg, "", NoHandler, made)>>
              /\ IF made.ok
                 THEN /\ secret' = KeyOf(made.value.verifier.secret)
                      /\ handlers' = made.value.handlers
                 ELSE UNCHANGED <<secret, handlers>>
    /\ UNCHANGED <<now, calls, direct, peer, http, enhanced, validator>>

\* on(eventType, handler), recorded
RegistryOn(eventType, handler) ==
    /\ Instance
    /\ Len(log) < MaxLog
    /\ handlers' = on(handlers, eventType, handler).handlers
    /\ log' = Append(log, Logged("on", Undefined, eventType, handler,
                                 on(handlers, eventType, handler).completion))
    /\ UNCHANGED <<secret, now, calls, direct, peer, http, enhanced, validator>>

\* off(eventType), recorded
RegistryOff(eventType) ==
    /\ Instance
    /\ Len(log) < MaxLog
    /\ handlers' = off(handlers, eventType).handlers
    /\ log' = Append(log, Logged("off", Undefined, eventType, NoHandler,
                                 off(handlers, eventType).completion))
    /\ UNCHANGED <<secret, now, calls, direct, peer, http, enhanced, validator>>

\* clearHandlers(), recorded
RegistryClearHandlers ==
    /\ Instance
    /\ Len(log) < MaxLog
    /\ handlers' = clearHandlers(handlers).handlers
    /\ log' = Append(log, Logged("clearHandlers", Undefined, "", NoHandler,
                                 clearHandlers(handlers).completion))
    /\ UNCHANGED <<secret, now, calls, direct, peer, http, enhanced, validator>>

\* the correctly signed events handled: one of a default type, one of a type
\* that has no default handler
RegistryPayloads ==
    { <<"{", "type:license.created", "}">>,
      <<"{", "type:unregistered.type", "created_at:1000000", "}">> }

\* handle(payload, signature) runs up to its await
RegistryHandleStart ==
    /\ Instance
    /\ Len(calls) < MaxCalls
    /\ \E payload \in RegistryPayloads :
          calls' = Append(calls,
                      handleStart(secret, handlers, now, payload,
                                  SignatureBy(secret, payload, Absent), Absent))
    /\ UNCHANGED <<secret, handlers, now, direct, log, peer, http, enhanced, validator>>

NextRegistry ==
    \/ Construct
    \/ \E input \in OnInputs : RegistryOn(input[1], input[2])
    \/ \E eventType \in OffTypes : RegistryOff(eventType)
    \/ RegistryClearHandlers
    \/ RegistryHandleStart
    \/ \E i \in DOMAIN calls : HandleResume(i)

SpecRegistry == InitRegistry /\ [][NextRegistry]_vars

(***************************************************************************)
(* Two WebhookHandler instances: on, off and clearHandlers on each, and    *)
(* handle on the second.                                                   *)
(***************************************************************************)
\* the registrations made and removed on the second handler
PeerOnInputs == {<<"license.created", Custom("returns")>>}
PeerOffTypes == {"license.created"}

PeerOn(eventType, handler) ==
    /\ peer' = [peer EXCEPT !.handlers = on(peer.handlers, eventType, handler).handlers]
    /\ UNCHANGED <<secret, handlers, now, calls, direct, log, http, enhanced, validator>>

PeerOff(eventType) ==
    /\ peer' = [peer EXCEPT !.handlers = off(peer.handlers, eventType).handlers]
    /\ UNCHANGED <<secret, handlers, now, calls, direct, log, http, enhanced, validator>>

PeerClearHandlers ==
    /\ peer' = [peer EXCEPT !.handlers = clearHandlers(peer.handlers).handlers]
    /\ UNCHANGED <<secret, handlers, now, calls, direct, log, http, enhanced, validator>>

PeerHandleStart ==
    /\ Len(peer.calls) < MaxCalls
    /\ \E payload \in RegistryPayloads :
          peer' = [peer EXCEPT !.calls =
                      Append(peer.calls,
                          handleStart(secret, peer.handlers, now, payload,
                                      SignatureBy(secret, payload, Absent), Absent))]
    /\ UNCHANGED <<secret, handlers, now, calls, direct, log, http, enhanced, validator>>

PeerHandleResume(i) ==
    /\ peer.calls[i].promise = Pending
    /\ peer' = [peer EXCEPT !.calls[i].promise =
                    handleSettle(peer.calls[i].ran.completion.value,
                                 RunHandler(peer.calls[i].handler,
                                            peer.calls[i].ran.completion.value))]
    /\ UNCHANGED <<secret, handlers, now, calls, direct, log, http, enhanced, validator>>

NextInstances ==
    \/ \E input \in OnInputs : On(input[1], input[2])
    \/ \E eventType \in OffTypes : Off(eventType)
    \/ ClearHandlers
    \/ \E input \in PeerOnInputs : PeerOn(input[1], input[2])
    \/ \E eventType \in PeerOffTypes : PeerOff(eventType)
    \/ PeerClearHandlers
    \/ PeerHandleStart
    \/ \E i \in DOMAIN peer.calls : PeerHandleResume(i)

SpecInstances == Init /\ [][NextInstances]_vars

(***************************************************************************)
(* Concurrent calls of handle on one WebhookHandler, interleaved with on,  *)
(* off and clearHandlers.                                                  *)
(***************************************************************************)
ConcurrentHandleStart ==
    /\ Len(calls) < MaxConcurrent
    /\ \E payload \in RegistryPayloads :
          calls' = Append(calls,
                      handleStart(secret, handlers, now, payload,
                                  SignatureBy(secret, payload, Absent), Absent))
    /\ UNCHANGED <<secret, handlers, now, direct, log, peer, http, enhanced, validator>>

NextConcurrent ==
    \/ ConcurrentHandleStart
    \/ \E i \in DOMAIN calls : HandleResume(i)
    \/ \E input \in OnInputs : On(input[1], input[2])
    \/ \E eventType \in OffTypes : Off(eventType)
    \/ ClearHandlers

SpecConcurrent == Init /\ [][NextConcurrent]_vars

(***************************************************************************)
(* An EnhancedClient on which init, licenseLogin, setVar, getAppStats and  *)
(* logout are called in any order, the server answering each request in    *)
(* any way.                                                                *)
(***************************************************************************)
\* what makeRequest completes with
ServerOutcomes ==
    { Return(Obj([success |-> Bool(TRUE), sessionid |-> Str("sess_1"),
                  info |-> Obj([username |-> Str("user_1")])])),
      Return(Obj([success |-> Bool(TRUE), sessionid |-> Str("sess_2"),
                  info |-> Obj([username |-> Str("user_2")])])),
      Return(Obj([success |-> Bool(TRUE)])),
      Return(Obj([success |-> Bool(FALSE), message |-> Str("denied")])),
      Return(Obj([success |-> Bool(FALSE)])),
      Return(Undefined),
      Throw([class |-> "Error", isError |-> TRUE,
             message |-> Message("connect ECONNREFUSED", <<>>)]) }

\* the fields and the record of the call after method op did `did`
EnhancedAfter(op, did) ==
    [client |-> did.client,
     call |-> [op |-> op, request |-> did.request, promise |-> did.promise]]

EnhancedInit ==
    /\ \E outcome \in ServerOutcomes :
          enhanced' = EnhancedAfter("init", init(enhanced.client, outcome))
    /\ UNCHANGED <<secret, handlers, now, calls, direct, log, peer, http, validator>>

EnhancedLicenseLogin ==
    /\ \E outcome \in ServerOutcomes :
          enhanced' = EnhancedAfter("licenseLogin",
                                    licenseLogin(enhanced.client, outcome))
    /\ UNCHANGED <<secret, handlers, now, calls, direct, log, peer, http, validator>>

EnhancedSetVar ==
    /\ \E outcome \in ServerOutcomes :
          enhanced' = EnhancedAfter("setVar", setVar(enhanced.client, outcome))
    /\ UNCHANGED <<secret, handlers, now, calls, direct, log, peer, http, validator>>

EnhancedGetAppStats ==
    /\ \E outcome \in ServerOutcomes :
          enhanced' = EnhancedAfter("getAppStats",
                                    getAppStats(enhanced.client, outcome))
    /\ UNCHANGED <<secret, handlers, now, calls, direct, log, peer, http, validator>>

EnhancedLogout ==
    /\ \E outcome \in ServerOutcomes :
          enhanced' = EnhancedAfter("logout", logout(enhanced.client, outcome))
    /\ UNCHANGED <<secret, handlers, now, calls, direct, log, peer, http, validator>>

NextEnhanced ==
    \/ EnhancedInit
    \/ EnhancedLicenseLogin
    \/ EnhancedSetVar
    \/ EnhancedGetAppStats
    \/ EnhancedLogout

SpecEnhanced == Init /\ [][NextEnhanced]_vars

(***************************************************************************)
(* A LicenseValidator on which validateWithRules or validateLicenses is    *)
(* called once, the client's requests completing in any order.             *)
(***************************************************************************)
\* an object of the fields of `fields` that are not undefined
Record(fields) ==
    Obj([k \in {key \in DOMAIN fields : fields[key] # Undefined} |-> fields[k]])

LicenseInputs ==
    { Record([usageCount |-> usageCount, features |-> features,
              metadata |-> metadata]) :
        usageCount \in {Undefined, Num(0), Num(5), Num(6)},
        features \in {Undefined, Arr(<<>>), Arr(<<Str("basic")>>),
                      Arr(<<Str("basic"), Str("premium")>>)},
        metadata \in {Undefined, Obj([domain |-> Str("a.example")]),
                      Obj([domain |-> Str("b.example"),
                           ipAddress |-> Str("10.0.0.2")])} }

RulesInputs ==
    {Undefined} \cup
    { Record([maxUsage |-> maxUsage, allowedFeatures |-> allowedFeatures,
              requiredFeatures |-> requiredFeatures,
              allowedDomains |-> allowedDomains, allowedIPs |-> allowedIPs]) :
        maxUsage \in {Undefined, Num(0), Num(5)},
        allowedFeatures \in {Undefined, Arr(<<>>), Arr(<<Str("basic")>>)},
        requiredFeatures \in {Undefined, Arr(<<Str("premium")>>)},
        allowedDomains \in {Undefined, Arr(<<Str("a.example")>>)},
        allowedIPs \in {Undefined, Arr(<<Str("10.0.0.1")>>)} }

\* what validateLicense resolves with
ResultInputs ==
    {Obj([valid |-> Bool(TRUE)]), Undefined,
     Obj([valid |-> Bool(FALSE), error |-> Str("License not found")])}
        \cup {Obj([valid |-> valid, license |-> license]) :
                 valid \in {Bool(TRUE), Bool(FALSE)}, license \in LicenseInputs}

CallValidateWithRules ==
    /\ validator = NoCall
    /\ \E result \in ResultInputs, rules \in RulesInputs :
          validator' = [op |-> "validateWithRules", result |-> result,
                        rules |-> rules,
                        promise |-> validateWithRules(result, rules)]
    /\ UNCHANGED <<secret, handlers, now, calls, direct, log, peer, http, enhanced>>

LicenseKeys == {"LIC-A", "LIC-B"}

\* what client.validateLicense(key) completes with
ClientOutcomes(key) ==
    { Return(Obj([valid |-> Bool(TRUE), license |-> Obj([key |-> Str(key)])])),
      Return(Obj([valid |-> Bool(FALSE), error |-> Str("License expired")])),
      Throw(createErrorFromResponse(404)),
      Throw([class |-> "string", isError |-> FALSE,
             message |-> Message("boom", <<>>)]) }

NotYet == [settled |-> FALSE]
Settled(outcome) == [settled |-> TRUE, outcome |-> outcome]

\* validateLicenses(licenseKeys, appId) up to its return: one validateLicense
\* call per key, each awaiting its request
CallValidateLicenses ==
    /\ validator = NoCall
    /\ \E licenseKeys \in SeqsUpTo(LicenseKeys, MaxKeys) :
          validator' = [op |-> "validateLicenses", licenseKeys |-> licenseKeys,
                        requests |-> [i \in DOMAIN licenseKeys |-> NotYet],
                        order |-> <<>>,
                        promises |-> [i \in DOMAIN licenseKeys |-> Pending],
                        promise |-> PromiseAll([i \in DOMAIN licenseKeys |-> Pending],
                                               <<>>)]
    /\ UNCHANGED <<secret, handlers, now, calls, direct, log, peer, http, enhanced>>

\* the request of the i-th validateLicense call completes
ClientCompletes(i) ==
    /\ validator.op = "validateLicenses"
    /\ ~validator.requests[i].settled
    /\ \E outcome \in ClientOutcomes(validator.licenseKeys[i]) :
          LET promises == [validator.promises EXCEPT ![i] = validateLicense(outcome)]
              order    == Append(validator.order, i)
          IN  validator' = [validator EXCEPT
                               !.requests[i] = Settled(outcome),
                               !.order = order,
                               !.promises = promises,
                               !.promise = PromiseAll(promises, order)]
    /\ UNCHANGED <<secret, handlers, now, calls, direct, log, peer, http, enhanced>>

NextValidator ==
    \/ CallValidateWithRules
    \/ CallValidateLicenses
    \/ \E i \in 1..MaxKeys :
          /\ validator.op = "validateLicenses"
          /\ i \in DOMAIN validator.licenseKeys
          /\ ClientCompletes(i)

SpecValidator == Init /\ [][NextValidator]_vars

(***************************************************************************)
(* One request of a LicenseChainClient: it is sent, the transport answers, *)
(* and the response interceptor returns the response, retries after a      *)
(* delay, or throws.                                                       *)
(***************************************************************************)
\* the retryAttempts and retryDelay of the configuration
RetryAttemptsInputs == {Absent, Given(0), Given(1), Given(2)}
RetryDelayInputs    == {Absent, Given(500)}

\* the status codes of responses
SuccessStatuses == {200}
ErrorStatuses   == {304, 400, 401, 403, 404, 408, 418, 429, 500, 502, 503, 504, 599}

Outcomes ==
    {Response(status) : status \in SuccessStatuses}
        \cup {ErrorResponse(status) : status \in ErrorStatuses}
        \cup {NoResponse, SetupError}

InitClient ==
    /\ enhanced = [client |-> NewEnhancedClient, call |-> NoCall]
    /\ validator = NoCall
    /\ Constructed
    /\ direct = [op |-> "none"]
    /\ \E retryAttempts \in RetryAttemptsInputs, retryDelay \in RetryDelayInputs :
          http = Request(DefaultTo(retryAttempts, DefaultRetryAttempts),
                         DefaultTo(retryDelay, DefaultRetryDelay),
                         "created", Undefined, 0, NoOutcome, 0, NoResult)

\* this.axiosInstance.request(config)
Send ==
    /\ http.phase = "created"
    /\ http' = [http EXCEPT !.phase = "inflight", !.sent = 1]
    /\ UNCHANGED <<secret, handlers, now, calls, direct, log, peer, enhanced, validator>>

\* the transport answers and the response interceptor runs
Respond(outcome) ==
    /\ http.phase = "inflight"
    /\ IF outcome.kind = "response"
       THEN http' = [http EXCEPT !.phase = "settled", !.last = outcome,
                                 !.result = Return(Num(outcome.status))]
       ELSE LET answer == onRejected(http.retryAttempts, http.retryDelay,
                                     http.retryCount, outcome)
            IN  IF answer.retry
                THEN http' = [http EXCEPT !.phase = "backoff", !.last = outcome,
                                          !.retryCount = answer.retryCount,
                                          !.delay = answer.delay]
                ELSE http' = [http EXCEPT !.phase = "settled", !.last = outcome,
                                          !.retryCount = answer.retryCount,
                                          !.result = Throw(answer.error)]
    /\ UNCHANGED <<secret, handlers, now, calls, direct, log, peer, enhanced, validator>>

\* the backoff timer fires: this.axiosInstance(originalRequest)
Resend ==
    /\ http.phase = "backoff"
    /\ http' = [http EXCEPT !.phase = "inflight", !.sent = @ + 1]
    /\ UNCHANGED <<secret, handlers, now, calls, direct, log, peer, enhanced, validator>>

NextClient ==
    \/ Send
    \/ \E outcome \in Outcomes : Respond(outcome)
    \/ Resend

SpecClient == InitClient /\ [][NextClient]_vars

(***************************************************************************)
(* Properties of the verifier, under SpecVerifier.                         *)
(***************************************************************************)
\* the algorithm a direct call runs with
DirectAlgorithm == DefaultTo(direct.algorithm, Sha256)

\* the algorithm names generateSignature accepts: sha1, sha256 and sha512
\* in any letter case
Supported(algorithm) == toLowerCase(algorithm) \in SupportedAlgorithms

\* `signature` is the signature of `payload` under the verifier's secret
Genuine(payload, signature, algorithm) ==
    /\ Supported(algorithm)
    /\ signature = algorithm \o <<"=">>
                     \o Hmac(toLowerCase(algorithm), payload, secret)

\* s and t differ in exactly one position
DifferInOne(s, t) ==
    /\ Len(s) = Len(t)
    /\ Cardinality({i \in DOMAIN s : s[i] # t[i]}) = 1

\* C4: verifySignature accepts the signature generateSignature makes for the
\* same payload and algorithm, and rejects it when one character of the
\* payload or one character of the signature is changed.
C4_RoundTripAndTamper ==
    direct.op = "verifySignature" =>
        \A q \in PayloadInputs :
            LET made == generateSignature(secret, q, DirectAlgorithm)
            IN  made.ok =>
                  /\ (q = direct.payload /\ direct.signature = made.value)
                        => direct.ran.completion = Return(TRUE)
                  /\ (DifferInOne(q, direct.payload) /\ direct.signature = made.value)
                        => direct.ran.completion = Return(FALSE)
                  /\ (q = direct.payload /\ DifferInOne(direct.signature, made.value))
                        => direct.ran.completion = Return(FALSE)

\* a signature with its last hex digit changed was rejected
C4_Witness ==
    /\ direct.op = "verifySignature"
    /\ Supported(DirectAlgorithm)
    /\ ~Genuine(direct.payload, direct.signature, DirectAlgorithm)
    /\ \E g \in Signed(direct.payload) :
          /\ DifferInOne(direct.signature, g)
          /\ direct.signature[Len(g)] # g[Len(g)]
          /\ Genuine(direct.payload, g, DirectAlgorithm)
    /\ direct.ran.completion = Return(FALSE)

\* C5: verifySignature always returns a boolean and never throws; it returns
\* false for an empty signature, for a signature whose length differs from
\* the expected one's, and for an algorithm that is none of sha1, sha256,
\* sha512, for which generateSignature throws "Unsupported algorithm".
C5_VerifySignatureTotal ==
    /\ direct.op = "verifySignature" =>
          /\ direct.ran.completion.ok
          /\ direct.ran.completion.value \in BOOLEAN
          /\ direct.signature = <<>> => direct.ran.completion.value = FALSE
          /\ (/\ Supported(DirectAlgorithm)
              /\ Len(direct.signature)
                   # Len(DirectAlgorithm) + 1 + HexWidth(toLowerCase(DirectAlgorithm)))
                => direct.ran.completion.value = FALSE
          /\ ~Supported(DirectAlgorithm) => direct.ran.completion.value = FALSE
    /\ (direct.op = "generateSignature" /\ ~Supported(DirectAlgorithm)) =>
          /\ ~direct.ran.completion.ok
          /\ direct.ran.completion.error.class = "WebhookVerificationError"
          /\ direct.ran.completion.error.message
               = Message("Unsupported algorithm: ", DirectAlgorithm)

\* verifySignature was called with an unsupported algorithm and a non-empty
\* signature, and returned false
C5_Witness ==
    /\ direct.op = "verifySignature"
    /\ ~Supported(DirectAlgorithm)
    /\ direct.signature # <<>>
    /\ direct.ran.completion = Return(FALSE)

\* C6: parsePayload with a signature that does not verify throws
\* WebhookVerificationError "Invalid webhook signature", whether or not the
\* payload is well-formed JSON, and does not call JSON.parse.
C6_BadSignatureNotParsed ==
    (/\ direct.op = "parsePayload"
     /\ ~Genuine(direct.payload, direct.signature, DirectAlgorithm))
        => /\ direct.ran.completion = Throw(InvalidSignature)
           /\ ~direct.ran.parsed

\* parsePayload rejected a tampered signature over a malformed payload
C6_Witness ==
    /\ direct.op = "parsePayload"
    /\ direct.signature # <<>>
    /\ ~Genuine(direct.payload, direct.signature, DirectAlgorithm)
    /\ ~JSONparse(direct.payload).ok
    /\ direct.ran.completion = Throw(InvalidSignature)

\* C7, as claimed: parsePayload with a valid signature over malformed JSON
\* signals a condition of its own (InvalidPayload), distinct from the one
\* signalled for a signature mismatch.
C7_Original ==
    (/\ direct.op = "parsePayload"
     /\ Genuine(direct.payload, direct.signature, DirectAlgorithm)
     /\ ~JSONparse(direct.payload).ok)
        => /\ ~direct.ran.completion.ok
           /\ direct.ran.completion.error.class # InvalidSignature.class

\* C7, amended: parsePayload with a valid signature over malformed JSON throws
\* a WebhookVerificationError, the class it also throws for a signature
\* mismatch, with the message "Invalid JSON payload: " followed by the parse
\* error; only the message tells the two apart.
C7_InvalidJsonSameClass ==
    (/\ direct.op = "parsePayload"
     /\ Genuine(direct.payload, direct.signature, DirectAlgorithm)
     /\ ~JSONparse(direct.payload).ok)
        => /\ direct.ran.parsed
           /\ ~direct.ran.completion.ok
           /\ direct.ran.completion.error.class = InvalidSignature.class
           /\ direct.ran.completion.error.message
                = Message("Invalid JSON payload: ", <<"SyntaxError">>)
           /\ direct.ran.completion.error.message # InvalidSignature.message

\* parsePayload was called with a valid signature over malformed JSON
C7_Witness ==
    /\ direct.op = "parsePayload"
    /\ Genuine(direct.payload, direct.signature, DirectAlgorithm)
    /\ ~JSONparse(direct.payload).ok
    /\ ~direct.ran.completion.ok

(***************************************************************************)
(* Properties of handle, under Spec.                                       *)
(***************************************************************************)
CallAlgorithm(c) == DefaultTo(c.algorithm, Sha256)

\* the call's signature is the signature of its payload
CorrectlySigned(c) == Genuine(c.payload, c.signature, CallAlgorithm(c))

\* the Event parsePayload returned to the call
EventOf(c) == c.ran.completion.value

\* the call invoked a handler, and the handler threw or rejected
HandlerThrew(c) ==
    /\ c.handler # NoHandler
    /\ ~RunHandler(c.handler, EventOf(c)).ok

\* the result envelope of a settled call
EnvelopeOf(c) == c.promise.value

\* the event's timestamp is an instant within / beyond the default tolerance
\* of the time of the call
Fresh(c) ==
    /\ EventOf(c).f.createdAt.t = "isostring"
    /\ Abs(c.at - EventOf(c).f.createdAt.ms) <= 300 * 1000
Stale(c) ==
    /\ EventOf(c).f.createdAt.t = "isostring"
    /\ Abs(c.at - EventOf(c).f.createdAt.ms) > 300 * 1000

\* C1: a call of handle calls JSON.parse, obtains an Event and invokes a
\* handler only after verifySignature was called, and only for a payload
\* whose signature is the signature of that payload under that algorithm.
C1_VerifiedBeforeParsed ==
    \A i \in DOMAIN calls :
        (calls[i].ran.parsed \/ calls[i].ran.completion.ok
            \/ calls[i].handler # NoHandler)
          => (calls[i].ran.verified /\ CorrectlySigned(calls[i]))

\* handle was called with well-formed JSON signed with another secret, and
\* neither parsed it nor invoked a handler
C1_Witness ==
    \E i \in DOMAIN calls :
        /\ ~CorrectlySigned(calls[i])
        /\ calls[i].signature # <<>>
        /\ JSONparse(calls[i].payload).ok
        /\ ~calls[i].ran.parsed
        /\ calls[i].handler = NoHandler
        /\ calls[i].promise # Pending

\* the call failed: parsePayload threw, the timestamp check failed, or the
\* handler threw
Failed(c) ==
    \/ ~c.ran.completion.ok
    \/ c.timestampChecked /\ c.handler = NoHandler
    \/ HandlerThrew(c)

\* C2: the promise handle returns is never rejected; it is fulfilled with an
\* envelope, and every failure with exactly {valid: false, error: <message>}.
C2_HandleNeverRejects ==
    \A i \in DOMAIN calls :
        /\ calls[i].promise.state # "rejected"
        /\ calls[i].promise.state = "fulfilled" =>
              /\ EnvelopeOf(calls[i]).t = "object"
              /\ "valid" \in DOMAIN EnvelopeOf(calls[i]).f
              /\ Failed(calls[i]) =>
                    /\ DOMAIN EnvelopeOf(calls[i]).f = {"valid", "error"}
                    /\ EnvelopeOf(calls[i]).f.valid = Bool(FALSE)
                    /\ EnvelopeOf(calls[i]).f.error.t = "text"

\* a call whose handler threw a value that is no Error has settled
C2_Witness ==
    \E i \in DOMAIN calls :
        /\ calls[i].handler = Custom("throwsString")
        /\ calls[i].promise.state = "fulfilled"
        /\ EnvelopeOf(calls[i]).f.valid = Bool(FALSE)

\* C3, as claimed: an error raised by a registered handler propagates out of
\* handle (the promise is rejected) instead of being folded into the envelope.
C3_Original ==
    \A i \in DOMAIN calls :
        (HandlerThrew(calls[i]) /\ calls[i].promise # Pending)
            => calls[i].promise.state = "rejected"

\* C3, amended: an error raised by a registered handler is caught by handle
\* and folded into {valid: false, error}: error is the message of a thrown
\* Error, and "Unknown error" for a thrown value that is no Error.
C3_HandlerErrorFolded ==
    \A i \in DOMAIN calls :
        (HandlerThrew(calls[i]) /\ calls[i].promise # Pending)
            => LET thrown == RunHandler(calls[i].handler, EventOf(calls[i])).error
               IN  calls[i].promise =
                     Fulfilled(Obj([valid |-> Bool(FALSE),
                                    error |-> Text(IF thrown.class = "Error"
                                                   THEN Message("handler failed", <<>>)
                                                   ELSE Message("Unknown error", <<>>))]))

\* a call whose handler threw an Error has settled
C3_Witness ==
    \E i \in DOMAIN calls :
        /\ calls[i].handler = Custom("throwsError")
        /\ CorrectlySigned(calls[i])
        /\ calls[i].timestampChecked
        /\ calls[i].promise.state = "fulfilled"

\* C8, as claimed: for a correctly signed payload of a default type with a
\* timestamp within tolerance, handled by the default handler, the envelope
\* has valid = true, status = "processed", and event equal to the Event that
\* was passed to the handler.
C8_Original ==
    \A i \in DOMAIN calls :
        (/\ calls[i].promise # Pending
         /\ CorrectlySigned(calls[i])
         /\ calls[i].ran.completion.ok
         /\ Fresh(calls[i])
         /\ EventOf(calls[i]).f.type.t = "string"
         /\ EventOf(calls[i]).f.type.s \in DefaultTypes
         /\ calls[i].handler = DefaultHandler(EventOf(calls[i]).f.type.s))
            => /\ calls[i].promise.state = "fulfilled"
               /\ EnvelopeOf(calls[i]).f.valid = Bool(TRUE)
               /\ EnvelopeOf(calls[i]).f.status = Str("processed")
               /\ EnvelopeOf(calls[i]).f.event = EventOf(calls[i])

\* C9: for a correctly signed payload whose timestamp differs from the time
\* of the call by more than 300 seconds, handle returns {valid: false,
\* error: "Webhook timestamp is too old"} and invokes no handler.
C9_StaleRejected ==
    \A i \in DOMAIN calls :
        (/\ CorrectlySigned(calls[i])
         /\ calls[i].ran.completion.ok
         /\ Stale(calls[i]))
            => /\ calls[i].handler = NoHandler
               /\ calls[i].promise =
                    Fulfilled(Obj([valid |-> Bool(FALSE),
                                   error |-> Text(Message("Webhook timestamp is too old",
                                                          <<>>))]))

\* an event timestamped 400 seconds before the call was rejected
C9_Witness ==
    \E i \in DOMAIN calls :
        /\ CorrectlySigned(calls[i])
        /\ calls[i].ran.completion.ok
        /\ EventOf(calls[i]).f.createdAt = IsoStr(calls[i].at - 400 * 1000)
        /\ calls[i].handler = NoHandler
        /\ EnvelopeOf(calls[i]).f.valid = Bool(FALSE)

\* C10: for a correctly signed event that passes the timestamp check and
\* whose type has no entry in the registry when handle is called, handle
\* returns {valid: true, status: "ignored", event: <the type string>}.
C10_UnknownIgnored ==
    \A i \in DOMAIN calls :
        (/\ calls[i].promise # Pending
         /\ CorrectlySigned(calls[i])
         /\ calls[i].ran.completion.ok
         /\ EventOf(calls[i]).f.type.t = "string"
         /\ ~calls[i].hadEntry
         /\ (Fresh(calls[i]) \/ EventOf(calls[i]).f.createdAt = Undefined))
            => calls[i].promise =
                 Fulfilled(Obj([valid  |-> Bool(TRUE),
                                status |-> Str("ignored"),
                                event  |-> EventOf(calls[i]).f.type]))

\* an event of type unregistered.type was handled while the registry had no
\* entry for it
C10_Witness ==
    \E i \in DOMAIN calls :
        /\ CorrectlySigned(calls[i])
        /\ calls[i].ran.completion.ok
        /\ EventOf(calls[i]).f.type = Str("unregistered.type")
        /\ ~calls[i].hadEntry
        /\ calls[i].promise.state = "fulfilled"
        /\ EnvelopeOf(calls[i]).f.status = Str("ignored")

(***************************************************************************)
(* Properties of the registry, under SpecRegistry.                         *)
(***************************************************************************)
\* the types on and off are called with
RegistryTypes == {input[1] : input \in OnInputs} \cup OffTypes

\* the log holds on(x, h) and, later, off(x), with no on(x, ...) after it
OnThenOff(x, h) ==
    \E j \in DOMAIN log, k \in DOMAIN log :
        /\ j < k
        /\ log[j].op = "on" /\ log[j].type = x /\ log[j].handler = h
        /\ log[k].op = "off" /\ log[k].type = x
        /\ \A m \in DOMAIN log : m > k => ~(log[m].op = "on" /\ log[m].type = x)

\* the call is one of a correctly signed event of type x that passed the
\* timestamp check
ValidOfType(c, x) ==
    /\ CorrectlySigned(c)
    /\ c.ran.completion.ok
    /\ EventOf(c).f.type = Str(x)
    /\ c.timestampChecked
    /\ c.handler # NoHandler

\* what handle returns for the call once its handler has completed
Outcome(c) == handleSettle(EventOf(c), RunHandler(c.handler, EventOf(c)))

\* C11: after on(x, h) followed by off(x), a handle of a valid event of type
\* x does not invoke h: it invokes the unknown-event handler, and its result
\* has status "ignored".
C11_OffFallsBackToUnknown ==
    [][\A x \in RegistryTypes, h \in CustomHandlers :
          (/\ OnThenOff(x, h)
           /\ Len(calls') = Len(calls) + 1
           /\ ValidOfType(calls'[Len(calls')], x))
             => /\ calls'[Len(calls')].handler # h
                /\ calls'[Len(calls')].handler = UnknownHandler
                /\ Outcome(calls'[Len(calls')]).state = "fulfilled"
                /\ Outcome(calls'[Len(calls')]).value.f.status = Str("ignored")]_vars

\* on("license.created", h) and off("license.created") were called, and an
\* event of type license.created was then handled as unknown
C11_Witness ==
    /\ OnThenOff("license.created", Custom("returns"))
    /\ log[Len(log)].op = "off"
    /\ \E i \in DOMAIN calls :
          /\ ValidOfType(calls[i], "license.created")
          /\ ~calls[i].hadEntry
          /\ calls[i].promise.state = "fulfilled"
          /\ EnvelopeOf(calls[i]).f.status = Str("ignored")

\* the step is a call of `op` on the handler, recorded as the log's last entry
Called(op) ==
    /\ Len(log') = Len(log) + 1
    /\ log'[Len(log')].op = op

\* C12: on(eventType, h) leaves the registry mapping eventType to h, so that
\* an event of that type resolves to h and to no handler registered before;
\* it leaves every other entry as it was; and a second on(eventType, h)
\* leaves the registry unchanged.
C12_OnOverwrites ==
    [][Called("on") =>
          LET eventType == log'[Len(log')].type
              h         == log'[Len(log')].handler
          IN  /\ log'[Len(log')].completion.ok
              /\ DOMAIN handlers' = DOMAIN handlers \cup {eventType}
              /\ handlers'[eventType] = h
              /\ ResolveHandler(handlers', Str(eventType)) = h
              /\ \A other \in DOMAIN handlers \ {eventType} :
                    handlers'[other] = handlers[other]
              /\ on(handlers', eventType, h).handlers = handlers'
              /\ (/\ log[Len(log)].op = "on"
                  /\ log[Len(log)].type = eventType
                  /\ log[Len(log)].handler = h) => handlers' = handlers]_vars

\* on("license.created", h) was called twice in a row: the default handler
\* of license.created is replaced by h, the other nine are in place
C12_Witness ==
    /\ Len(log) = 3
    /\ log[2].op = "on" /\ log[2].type = "license.created"
    /\ log[2].handler = Custom("throwsError")
    /\ log[3] = log[2]
    /\ handlers["license.created"] = Custom("throwsError")
    /\ DOMAIN handlers = DefaultTypes
    /\ \A type \in DefaultTypes \ {"license.created"} :
          handlers[type] = DefaultHandler(type)

\* C13: off(eventType) removes the entry of eventType and no other, and
\* leaves the other entries as they were; when eventType has no entry, off
\* throws nothing and leaves the registry unchanged.
C13_OffRemovesOnlyItsEntry ==
    [][Called("off") =>
          LET eventType == log'[Len(log')].type
          IN  /\ log'[Len(log')].completion.ok
              /\ DOMAIN handlers' = DOMAIN handlers \ {eventType}
              /\ \A other \in DOMAIN handlers' : handlers'[other] = handlers[other]
              /\ eventType \notin DOMAIN handlers => handlers' = handlers]_vars

\* off was called for a type without an entry, and then for license.created
C13_Witness ==
    /\ Len(log) = 3
    /\ log[2].op = "off" /\ log[2].type = "unregistered.type"
    /\ log[2].completion.ok
    /\ log[3].op = "off" /\ log[3].type = "license.created"
    /\ DOMAIN handlers = DefaultTypes \ {"license.created"}
    /\ \A type \in DOMAIN handlers : handlers[type] = DefaultHandler(type)

\* the ten default event types
C14_Types ==
    {"license.created", "license.updated", "license.revoked", "license.expired",
     "license.validated", "app.created", "app.updated", "app.deleted",
     "user.created", "user.updated"}

\* C14: when the constructor returns, the registry holds the ten default
\* types and no other; the handler of each returns {status: "processed",
\* event: <its type>}; and a step in which a default handler completes
\* changes nothing but the promise of its call.
C14_DefaultHandlers ==
    [][/\ (Called("constructor") /\ log'[1].completion.ok) =>
             /\ DOMAIN handlers' = C14_Types
             /\ \A type \in C14_Types, payload \in RegistryPayloads :
                   LET event == extractEventData(JSONparse(payload).value).value
                   IN  RunHandler(handlers'[type], event)
                         = Return(Obj([status |-> Str("processed"),
                                       event  |-> Str(type)]))
       /\ \A i \in DOMAIN calls :
             (/\ calls[i].promise = Pending
              /\ calls[i].handler.kind = "default"
              /\ i \in DOMAIN calls'
              /\ calls'[i].promise # Pending)
                => /\ UNCHANGED <<secret, handlers, now, direct, log, peer, http, enhanced, validator>>
                   /\ calls' = [calls EXCEPT ![i].promise = calls'[i].promise]
                   /\ EnvelopeOf(calls'[i]).f.status = Str("processed")]_vars

\* right after construction an event of type license.created was handled by
\* its default handler
C14_Witness ==
    /\ Len(log) = 1
    /\ log[1].op = "constructor"
    /\ log[1].completion.ok
    /\ DOMAIN handlers = C14_Types
    /\ \E i \in DOMAIN calls :
          /\ calls[i].handler = DefaultHandler("license.created")
          /\ calls[i].promise.state = "fulfilled"
          /\ EnvelopeOf(calls[i]).f.status = Str("processed")

\* C18: a constructor called with an empty or missing secret throws a
\* WebhookVerificationError and makes no instance; an instance that exists
\* has a non-empty secret.
C18_SecretRequired ==
    log # <<>> =>
        /\ log[1].op = "constructor"
        /\ ~Truthy(log[1].secret) =>
              /\ ~log[1].completion.ok
              /\ log[1].completion.error.class = "WebhookVerificationError"
              /\ log[1].completion.error.message
                   = Message("Webhook secret is required", <<>>)
              /\ ~NewWebhookVerifier(log[1].secret).ok
              /\ handlers = NoEntries
              /\ Len(log) = 1
              /\ calls = <<>>
        /\ log[1].completion.ok =>
              /\ Truthy(log[1].completion.value.verifier.secret)
              /\ secret # ""

\* the constructor was called with the empty string and threw
C18_Witness ==
    /\ log # <<>>
    /\ log[1].op = "constructor"
    /\ log[1].secret = Str("")
    /\ ~log[1].completion.ok
    /\ ~Instance

(***************************************************************************)
(* Properties of two handlers, under SpecInstances.                        *)
(***************************************************************************)
\* what handle of a handler with secret `sec` and `registry` returns for each
\* payload when the clock reads currentTime
HandleResults(sec, registry, currentTime) ==
    [payload \in RegistryPayloads |->
        LET c == handleStart(sec, registry, currentTime, payload,
                             SignatureBy(sec, payload, Absent), Absent)
        IN  IF c.promise = Pending THEN Outcome(c) ELSE c.promise]

\* C15: a step that changes the registry of one WebhookHandler (an on, off
\* or clearHandlers call on it) leaves the registry of the other, the calls
\* the other has made and what the other's handle returns as they were.
C15_InstancesIndependent ==
    [][/\ handlers' # handlers =>
             /\ peer'.handlers = peer.handlers
             /\ peer'.calls = peer.calls
             /\ HandleResults(secret', peer'.handlers, now')
                  = HandleResults(secret, peer.handlers, now)
       /\ peer'.handlers # peer.handlers =>
             /\ handlers' = handlers
             /\ calls' = calls
             /\ HandleResults(secret', handlers', now')
                  = HandleResults(secret, handlers, now)]_vars

\* the first handler's registry was cleared, and the second, its registry as
\* constructed, handled an event of type license.created with its default
\* handler
C15_Witness ==
    /\ handlers = NoEntries
    /\ peer.handlers = setupDefaultHandlers
    /\ \E i \in DOMAIN peer.calls :
          /\ peer.calls[i].handler = DefaultHandler("license.created")
          /\ peer.calls[i].promise.state = "fulfilled"
          /\ EnvelopeOf(peer.calls[i]).f.status = Str("processed")

(***************************************************************************)
(* Properties of verifyTimestamp, under SpecVerifier.                      *)
(***************************************************************************)
\* the tolerance a direct call of verifyTimestamp runs with, in seconds
DirectTolerance == IF direct.tolerance.given THEN direct.tolerance.v ELSE 300

\* the event's timestamp is a date
Parsable(event) == event.f.createdAt.t = "isostring"

\* the event has no timestamp (none, or an empty one)
NoTimestamp(event) == event.f.createdAt \in {Undefined, Str("")}

\* milliseconds between the clock at the call and the event's timestamp
Distance(event) == Abs(direct.at - event.f.createdAt.ms)

\* C16: for an event whose timestamp is a date, verifyTimestamp returns true
\* if and only if the clock and the timestamp are at most `tolerance` seconds
\* (300 when none is given) apart, whichever of the two is later; a distance
\* of exactly the tolerance is accepted.
C16_WithinTolerance ==
    (direct.op = "verifyTimestamp" /\ Parsable(direct.event)) =>
        /\ direct.ran.completion.ok
        /\ direct.ran.completion.value
             = (Distance(direct.event) <= DirectTolerance * 1000)
        /\ Distance(direct.event) = DirectTolerance * 1000
             => direct.ran.completion.value = TRUE
        /\ \A mirrored \in TimestampInputs :
              (/\ mirrored.t = "isostring"
               /\ mirrored.ms - direct.at = direct.at - direct.event.f.createdAt.ms)
                 => verifyTimestamp(EventAt(mirrored), DirectTolerance, direct.at)
                      = direct.ran.completion.value

\* an event exactly 300 s in the future was accepted with the default
\* tolerance
C16_Witness ==
    /\ direct.op = "verifyTimestamp"
    /\ ~direct.tolerance.given
    /\ direct.event.f.createdAt = IsoStr(1300000)
    /\ direct.at = 1000000
    /\ direct.ran.completion = Return(TRUE)

\* C17: verifyTimestamp throws nothing; it returns true for an event without
\* timestamp, and false for an event whose timestamp is no date.
C17_TimestampTotal ==
    direct.op = "verifyTimestamp" =>
        /\ direct.ran.completion.ok
        /\ direct.ran.completion.value \in BOOLEAN
        /\ NoTimestamp(direct.event) => direct.ran.completion.value = TRUE
        /\ (~NoTimestamp(direct.event) /\ ~Parsable(direct.event))
              => direct.ran.completion.value = FALSE

\* verifyTimestamp returned true for an event without createdAt
C17_Witness ==
    /\ direct.op = "verifyTimestamp"
    /\ direct.event.f.createdAt = Undefined
    /\ direct.ran.completion = Return(TRUE)

(***************************************************************************)
(* Properties of the normalization, under SpecVerifier.                    *)
(***************************************************************************)
\* parsePayload returned the Event of a JSON object
Normalized ==
    /\ direct.op = "parsePayload"
    /\ direct.ran.completion.ok
    /\ JSONparse(direct.payload).ok
    /\ JSONparse(direct.payload).value.t = "object"

\* the members of the JSON object passed to parsePayload
Source == JSONparse(direct.payload).value.f

\* C19, as claimed: each field of the Event is the value of the first source
\* field that is present, whatever that value is: type from type, then
\* event; createdAt from created_at, then createdAt; data from data, then
\* object, and the empty object when both are absent.
C19_Original ==
    Normalized =>
        LET FirstPresent(a, b, none) ==
                IF a \in DOMAIN Source THEN Source[a]
                ELSE IF b \in DOMAIN Source THEN Source[b]
                ELSE none
            event == direct.ran.completion.value.f
        IN  /\ event.type = FirstPresent("type", "event", Undefined)
            /\ event.createdAt = FirstPresent("created_at", "createdAt", Undefined)
            /\ event.data = FirstPresent("data", "object", EmptyObj)

\* C19, amended: each field of the Event is taken in the same priority order
\* from the first source field whose value is truthy; a source field that is
\* present with a falsy value (null, "", 0) is passed over like an absent
\* one; type and createdAt then take the later field's value as it is, and
\* data is the empty object when neither data nor object is truthy.
C19_FirstTruthyWins ==
    Normalized =>
        LET Has(a) == a \in DOMAIN Source /\ Truthy(Source[a])
            Get(a) == IF a \in DOMAIN Source THEN Source[a] ELSE Undefined
            event  == direct.ran.completion.value.f
        IN  /\ event.id = Get("id")
            /\ event.type = IF Has("type") THEN Source["type"] ELSE Get("event")
            /\ event.createdAt = IF Has("created_at") THEN Source["created_at"]
                                 ELSE Get("createdAt")
            /\ event.data = IF Has("data") THEN Source["data"]
                            ELSE IF Has("object") THEN Source["object"]
                            ELSE EmptyObj

\* a payload with an empty type and an event was normalized to the event
C19_Witness ==
    /\ Normalized
    /\ direct.payload = <<"{", "type:''", "event:user.created", "}">>
    /\ direct.ran.completion.value.f.type = Str("user.created")

(***************************************************************************)
(* Properties of the client's retries, under SpecClient.                   *)
(***************************************************************************)
\* the failures classified as transient: no response received, a 5xx
\* status, 429 and 408
Transient(outcome) ==
    /\ outcome.kind = "error"
    /\ \/ outcome.request /\ ~outcome.response
       \/ outcome.response /\ (outcome.status >= 500 \/ outcome.status \in {429, 408})

\* C20: a request that failed with a network error, a 5xx status, 429 or 408
\* is retried as long as retry attempts are left, so that such a failure
\* reaches the caller only when none is left; a request that failed with
\* 400, 401, 403 or 404 is not retried.
C20_Original ==
    /\ (http.phase = "settled" /\ ~http.result.ok /\ Transient(http.last))
          => Count(http.retryCount) >= http.retryAttempts
    /\ (http.last.response /\ http.last.status \in {400, 401, 403, 404})
          => http.phase # "backoff"

\* the steps a request has left at most: sends, answers and timers
Rank(request) ==
    3 * (2 + request.retryAttempts - request.sent)
        + (CASE request.phase = "created"  -> 3
             [] request.phase = "inflight" -> 2
             [] request.phase = "backoff"  -> 1
             [] OTHER                      -> 0)

\* C21: a request is sent at most 1 + retryAttempts times; its _retryCount
\* never decreases and never exceeds retryAttempts; a failure with a 5xx
\* status, 429 or 408 that arrives when no attempt is left is thrown as the
\* error of its status; and every step brings the request nearer to its end,
\* so that the retrying stops.
C21_RetryBounded ==
    [][/\ http'.sent <= 1 + http'.retryAttempts
       /\ Count(http'.retryCount) >= Count(http.retryCount)
       /\ Count(http'.retryCount) <= http'.retryAttempts
       /\ http'.phase = "backoff" => Count(http'.retryCount) = http'.sent
       /\ (/\ http.phase = "inflight"
           /\ http.sent = 1 + http.retryAttempts
           /\ http'.last.kind = "error")
             => /\ http'.phase = "settled"
                /\ ~http'.result.ok
                /\ Transient(http'.last) /\ http'.last.response
                     => /\ http'.result.error.class
                             \in {"ServerError", "RateLimitError", "TimeoutError"}
                        /\ http'.result.error.statusCode = Num(http'.last.status)
       /\ Rank(http') < Rank(http)
       /\ Rank(http') >= 0]_vars

\* a client with the default configuration sent its request four times, and
\* the fourth 503 was thrown as a ServerError
C21_Witness ==
    /\ http.retryAttempts = 3
    /\ http.sent = 4
    /\ http.retryCount = Num(3)
    /\ http.phase = "settled"
    /\ http.last = ErrorResponse(503)
    /\ http.result.ok = FALSE
    /\ http.result.error.class = "ServerError"

\* the error class the claim fixes for an outcome
ClaimedClass(outcome) ==
    CASE ~outcome.response -> "NetworkError"
      [] outcome.status \in {401, 403} -> "AuthenticationError"
      [] outcome.status = 400 -> "ValidationError"
      [] outcome.status = 404 -> "NotFoundError"
      [] outcome.status = 429 -> "RateLimitError"
      [] outcome.status = 408 -> "TimeoutError"
      [] outcome.status >= 500 -> "ServerError"
      [] OTHER -> "any"

\* C22: a failed request reaches the caller as an error of the class fixed
\* by its outcome: AuthenticationError for 401 and 403, ValidationError for
\* 400, NotFoundError for 404, RateLimitError for 429, TimeoutError for 408,
\* ServerError for a 5xx status, NetworkError when no response was received.
C22_Original ==
    (/\ http.phase = "settled"
     /\ ~http.result.ok
     /\ http.last.request
     /\ ClaimedClass(http.last) # "any")
        => http.result.error.class = ClaimedClass(http.last)

\* the call passed the signature check and the timestamp check
PassedBoth(c) ==
    /\ CorrectlySigned(c)
    /\ c.ran.completion.ok
    /\ c.timestampChecked
    /\ Fresh(c) \/ ~Truthy(EventOf(c).f.createdAt)

\* C23: a call of handle invokes a handler only after the signature check and
\* the timestamp check have passed; a call that fails a check ends there with
\* a failure envelope and no handler; a call that passes both invokes exactly
\* one handler, which completes once, and nothing about a call is redone: a
\* call changes only by its pending promise being settled, once.
C23_CallStages ==
    [][/\ \A i \in DOMAIN calls' :
             LET c == calls'[i]
             IN  /\ c.handler # NoHandler => PassedBoth(c)
                 /\ ~c.ran.completion.ok =>
                        /\ ~c.timestampChecked
                        /\ c.handler = NoHandler
                        /\ c.promise = Fulfilled(FailureEnvelope(c.ran.completion.error))
                 /\ (c.ran.completion.ok /\ ~PassedBoth(c)) =>
                        /\ c.handler = NoHandler
                        /\ c.promise = Fulfilled(FailureEnvelope(TooOld))
                 /\ PassedBoth(c) =>
                        /\ c.handler \in {UnknownHandler} \cup CustomHandlers
                               \cup {DefaultHandler(type) : type \in DefaultTypes}
                        /\ c.promise \in {Pending, Outcome(c)}
       /\ Len(calls') >= Len(calls)
       /\ \A i \in DOMAIN calls :
             \/ calls'[i] = calls[i]
             \/ /\ calls[i].promise = Pending
                /\ calls'[i] = [calls[i] EXCEPT !.promise = Outcome(calls[i])]
                /\ calls'[i].promise # Pending]_vars

\* a call that passed both checks and whose one handler has completed
C23_Witness ==
    \E i \in DOMAIN calls :
        /\ PassedBoth(calls[i])
        /\ Fresh(calls[i])
        /\ calls[i].handler = DefaultHandler("license.created")
        /\ calls[i].promise = Outcome(calls[i])
        /\ EnvelopeOf(calls[i]).f.valid = Bool(TRUE)

\* C24: secureCompare returns false without examining any position when an
\* argument is empty or the lengths differ; for two non-empty strings of
\* equal length it examines every position 1..Len(a) once, wherever the
\* first difference is, and returns whether the strings are equal.
C24_NoEarlyExit ==
    direct.op = "secureCompare" =>
        IF direct.a = <<>> \/ direct.b = <<>> \/ Len(direct.a) # Len(direct.b)
        THEN direct.run = [result |-> FALSE, examined |-> <<>>]
        ELSE /\ direct.run.examined = [i \in 1..Len(direct.a) |-> i]
             /\ direct.run.result = (direct.a = direct.b)

\* two strings of equal length that differ at the first position, compared
\* at every position
C24_Witness ==
    /\ direct.op = "secureCompare"
    /\ Len(direct.a) = Len(direct.b)
    /\ Len(direct.a) > 1
    /\ direct.a[1] # direct.b[1]
    /\ Len(direct.run.examined) = Len(direct.a)
    /\ ~direct.run.result

\* C25: a step in which a call of handle starts or completes leaves the
\* registry as it was, whatever the call's outcome; the registry changes only
\* in a step of on, off or clearHandlers.
C25_HandleReadsRegistry ==
    [][/\ calls' # calls => handlers' = handlers
       /\ handlers' # handlers =>
             handlers' \in {on(handlers, input[1], input[2]).handlers :
                                input \in OnInputs}
                    \cup {off(handlers, eventType).handlers : eventType \in OffTypes}
                    \cup {clearHandlers(handlers).handlers}]_vars

\* a call whose handler threw, with the registry still holding that handler
C25_Witness ==
    \E i \in DOMAIN calls :
        /\ HandlerThrew(calls[i])
        /\ calls[i].promise.state = "fulfilled"
        /\ DOMAIN handlers = DefaultTypes
        /\ handlers["license.created"] = calls[i].handler

\* C26: a call of handle runs the handler the registry holds for the event's
\* type in the step in which the call starts; on, off and clearHandlers leave
\* every call, pending or settled, as it is, and a pending call settles with
\* the result of the handler it started with.
C26_HandlerBoundAtCall ==
    [][/\ \A i \in DOMAIN calls :
             /\ calls'[i].handler = calls[i].handler
             /\ calls'[i] # calls[i] =>
                    /\ calls[i].promise = Pending
                    /\ calls'[i].promise = Outcome(calls[i])
       /\ Len(calls') = Len(calls) + 1 =>
             LET c == calls'[Len(calls')]
             IN  c.handler # NoHandler =>
                    c.handler = ResolveHandler(handlers, EventOf(c).f.type)
       /\ handlers' # handlers => calls' = calls]_vars

\* the first call is still suspended in the default handler while a second
\* call for the same type, started after on(), has completed with the custom
\* handler, and the registry has been cleared since
C26_Witness ==
    /\ Len(calls) = 2
    /\ EventOf(calls[1]).f.type = Str("license.created")
    /\ EventOf(calls[2]).f.type = Str("license.created")
    /\ calls[1].handler = DefaultHandler("license.created")
    /\ calls[1].promise = Pending
    /\ calls[2].handler = Custom("returns")
    /\ calls[2].promise.state = "fulfilled"
    /\ EnvelopeOf(calls[2]).f.status = Str("custom")
    /\ handlers = NoEntries

(***************************************************************************)
(* Properties of EnhancedClient.                                           *)
(***************************************************************************)
\* the methods guarded by ensureLoggedIn, by the one modelled
LoggedInMethods == {"setVar"}
\* the methods guarded by ensureInitialized alone
InitializedMethods == {"licenseLogin", "getAppStats"}

\* C27, as claimed: whenever isLoggedIn() is true the client is initialized
\* and its session id is not null, and no request of a method that requires
\* a logged-in user is sent with a null sessionid.
C27_Original ==
    /\ isLoggedIn(enhanced.client) =>
          /\ enhanced.client.initialized
          /\ enhanced.client.sessionId # Null
    /\ (enhanced.call.op \in LoggedInMethods /\ enhanced.call.request.sent) =>
          enhanced.call.request.body.sessionid # Null

Supplied(rules, key) == rules.t = "object" /\ key \in DOMAIN rules.f

\* the features of the license (none when it has no features array)
FeaturesOf(license) ==
    IF Opt(license, "features").t = "array"
    THEN {Opt(license, "features").a[i] : i \in DOMAIN Opt(license, "features").a}
    ELSE {}

\* the license satisfies every rule the rules object supplies; a rule about a
\* field the license does not carry (usage count, domain, IP address) is
\* taken as satisfied
Satisfies(license, rules) ==
    /\ Supplied(rules, "maxUsage") =>
          (Opt(license, "usageCount").t = "number" =>
              Opt(license, "usageCount").n <= rules.f.maxUsage.n)
    /\ Supplied(rules, "allowedFeatures") =>
          \A feature \in FeaturesOf(license) :
              Includes(rules.f.allowedFeatures, feature)
    /\ Supplied(rules, "requiredFeatures") =>
          \A i \in DOMAIN rules.f.requiredFeatures.a :
              rules.f.requiredFeatures.a[i] \in FeaturesOf(license)
    /\ Supplied(rules, "allowedDomains") =>
          (Truthy(Opt(Opt(license, "metadata"), "domain")) =>
              Includes(rules.f.allowedDomains, Opt(Opt(license, "metadata"), "domain")))
    /\ Supplied(rules, "allowedIPs") =>
          (Truthy(Opt(Opt(license, "metadata"), "ipAddress")) =>
              Includes(rules.f.allowedIPs, Opt(Opt(license, "metadata"), "ipAddress")))

\* C29, as claimed: validateWithRules returns valid = true only if the
\* validateLicense result is valid and the license satisfies every rule
\* supplied in rules.
C29_Original ==
    (/\ validator.op = "validateWithRules"
     /\ validator.promise.state = "fulfilled"
     /\ GetProp(validator.promise.value, "valid").value = Bool(TRUE)) =>
        /\ GetProp(validator.result, "valid").value = Bool(TRUE)
        /\ Satisfies(Opt(validator.result, "license"), validator.rules)

\* every request of the validateLicenses call has completed
AllCompleted ==
    \A i \in DOMAIN validator.requests : validator.requests[i].settled

\* C30: no validateLicense promise is ever rejected: it is fulfilled with the
\* client's result, or with {valid: false, error: <message>} when the client
\* threw; the promise of validateLicenses is never rejected and, once every
\* request has completed, is fulfilled with one result per key, in the order
\* of the keys, whatever the order of completion.
C30_NeverRejects ==
    validator.op = "validateLicenses" =>
        /\ \A i \in DOMAIN validator.licenseKeys :
              /\ validator.promises[i].state # "rejected"
              /\ validator.requests[i].settled =>
                    LET outcome == validator.requests[i].outcome
                    IN  validator.promises[i] =
                            IF outcome.ok THEN Fulfilled(outcome.value)
                            ELSE Fulfilled(Obj([valid |-> Bool(FALSE),
                                     error |-> Text(IF outcome.error.isError
                                                    THEN outcome.error.message
                                                    ELSE Message("Unknown error", <<>>))]))
        /\ validator.promise.state # "rejected"
        /\ AllCompleted =>
              /\ validator.promise.state = "fulfilled"
              /\ Len(validator.promise.value.a) = Len(validator.licenseKeys)
              /\ \A i \in DOMAIN validator.licenseKeys :
                    validator.promise.value.a[i] = validator.promises[i].value

\* two keys: the request of the second completed first with a valid result,
\* the request of the first threw, and the list is in the order of the keys
C30_Witness ==
    /\ validator.op = "validateLicenses"
    /\ validator.licenseKeys = <<"LIC-A", "LIC-B">>
    /\ validator.order = <<2, 1>>
    /\ ~validator.requests[1].outcome.ok
    /\ validator.promise.state = "fulfilled"
    /\ validator.promise.value.a[1].f.valid = Bool(FALSE)
    /\ validator.promise.value.a[2] =
          Obj([valid |-> Bool(TRUE), license |-> Obj([key |-> Str("LIC-B")])])

=============================================================================
